---- MODULE Spec2Model ----
(***************************************************************************)
(* Beaves: a BLE proximity sentry (package radar) feeding an event loop    *)
(* (package main, Beaves.Manage) that drives an opto relay over GPIO       *)
(* (package controller).                                                   *)
(*                                                                         *)
(* Time is discrete, one unit = one second.  The program only ever         *)
(* compares a timestamp with time.Now(), so a timestamp is kept as its age *)
(* (time.Now() minus the timestamp), saturated where a larger age makes   *)
(* no difference, and a sleep is kept as the time still to wait.  The      *)
(* action Tick lets one unit pass.                                         *)
(* A sleep shorter than one unit (the 100 ms of the flood guard) is a      *)
(* position of its own that is left without a Tick.                        *)
(***************************************************************************)
EXTENDS Integers, Sequences, FiniteSets, Bags, TLC

\* Largest relayDebounceMs the configuration may hold, in time units.
MaxDebounce == 4

\* The settle delay Manage passes to On/Off: time.Duration(1) * time.Second.
SettleDelay == 1

\* bluetooth.connectionPoolSize: the capacity of the event channel.
ConnectionPoolSize == 2

\* How many connect/disconnect signals the radio stack delivers in a run.
MaxCallbacks == 3

\* How deep the handler -> Disconnect -> handler recursion is followed.
MaxDepth == 2

\* eventLoopDelayMs, bluetooth.disconnectionDelayMs and
\* bluetooth.advertisementDelayMs, in time units.
EventLoopDelay == 2

DisconnectionDelay == 1

AdvertisementDelay == 1

\* The window of the memoizing loggers (60 s in the source), in time units.
MemoWindow == 2

\* The longest identifier and the longest allow-list Actor.Known is given.
MaxIdLen == 2

MaxKnown == 2

\* The longest minimum time between operations (Beaves.Delay).
MaxDelay == 3

\* How many goroutines call InfoMemoize at the same time.
MaxCallers == 3

\* How many calls of InfoMemoize are followed.
MaxLogs == 6

\* The ages of the histories saturate here: AgeCap means "AgeCap or more".
AgeCap == MaxDebounce

VARIABLES
    env,        \* what the environment may do: "any" | "nominal" | "relay"
                \* | "e2e" | "log" | "faulty" | "known" | "operate"
                \* | "order" | "conc"
    state,      \* OptoRelay.state
    gpio,       \* OptoRelay.gpio: [pin, name, debounce, last]; last is an age
    level,      \* electrical level of the line behind gpio.pin
    mainPc,     \* "new" before NewOptoRelaySwitch, then "ready", and
                \* "failed" (constructor error) | "panic" | "exited"
    newErr,     \* the error NewOptoRelaySwitch returned
    claimLog,   \* history: the calls of Claim in order: [sn, err]
    call,       \* the On/Off/Toggle call in progress, or NoCall
    ret,        \* what the last completed On/Off/Toggle returned
    hist,       \* history: summaries of the last two completed calls
    obs,        \* history: ages of the last pin.Out (any, successful) and
                \* the same ages as they were when pin.Out was last invoked
    response,   \* the buffer of the event channel made by Search
    closed,     \* the event channel has been closed
    senders,    \* the sender goroutines that have not sent yet, each as
                \* the event it sends
    created,    \* history: number of sender goroutines started so far
    radio,      \* the handler invocation of the D-Bus signal goroutine
    disconnectors, \* bag of the goroutines of the unknown-actor branch
    requested,  \* history: devices Device.Disconnect was called on
    adv,        \* the advertise goroutine: [pc, timer, started]; started
                \* is Advertisement.started
    listening,  \* a handleDBusSignals goroutine is delivering signals
    callbacks,  \* number of signals delivered so far
    lastCb,     \* history: the last handler invocation for an allow-listed
                \* device: "none" | "connect" | "disconnect"
    loop,       \* Manage's event loop: [pc, timer]
    proc,       \* Manage's batch of the current tick
    tickOps,    \* history: the actuator calls made in the current tick
    memoizeLogs, \* log.memoizeLogs: key -> [exp, count]; exp is the time
                \* left until Exp, 0 once it has passed or was never set
    logEnabled, \* config.RuntimeConfig.Log.Enabled
    printed,    \* the lines written to standard output: [msg, count]
    logHist,    \* history of the InfoMemoize calls, see NoLogHist
    memoizeLock, \* log.memoizeLock: 0 unlocked, or the goroutine that holds it
    callers,    \* the goroutines inside InfoMemoize, where its steps are
                \* followed one by one: [msg, pc, m]
    lookup,     \* a call of Actor.Known: [list, id, pc, result, after]
    beaves,     \* Beaves of the momentary-press variant: [delay, last, pc,
                \* ret]; last is an age, pc the position of Operate
    completed   \* history: the age of the last Operate that returned after
                \* both of its calls returned nil

relayVars == <<state, gpio, level, mainPc, newErr, claimLog, call, ret, hist, obs>>

radarVars == <<response, closed, senders, created, radio, disconnectors,
               requested, adv, listening, callbacks, lastCb>>

loopVars == <<loop, proc, tickOps>>

logVars == <<memoizeLogs, logEnabled, printed, logHist>>

\* what the program's steps below leave alone
operateVars == <<beaves, completed>>

concVars == <<memoizeLock, callers>>

auxVars == <<logVars, concVars, lookup, operateVars>>

vars == <<env, relayVars, radarVars, loopVars, auxVars>>

-----------------------------------------------------------------------------
(* errors: fmt.Errorf with %w keeps the wrapped errors                      *)

Nil == [msg |-> <<"nil">>, wraps |-> <<>>]

Leaf(msg) == [msg |-> msg, wraps |-> <<>>]

Wrap(msg, err) == [msg |-> msg, wraps |-> <<err>>]

Wrap2(msg, e1, e2) == [msg |-> msg, wraps |-> <<e1, e2>>]

\* errors.Is(err, target): target is err or is wrapped somewhere inside it
RECURSIVE Is(_, _)
Is(err, target) ==
    IF err = Nil THEN FALSE
    ELSE \/ err = target
         \/ \E i \in 1..Len(err.wraps) : Is(err.wraps[i], target)

\* the failures of the collaborators (periph host, pin driver)
HostInitErr == Leaf(<<"host.Init failed">>)

PinOutErr == Leaf(<<"pin.Out failed">>)

-----------------------------------------------------------------------------
(* controller: State, Level, Valid, GetState                                *)

States == {"Unknown", "On", "Off", "Error"}

Level(s) == IF s = "On" THEN "High" ELSE "Low"

Valid(s) == s \in {"On", "Off"}

\* GetState with the two levels exchanged
GetStateInverted(l) ==
    CASE l = "High" -> "Off"
      [] l = "Low"  -> "On"
      [] OTHER      -> "Unknown"

GetState(l) ==
    CASE l = "High" -> "On"
      [] l = "Low"  -> "Off"
      [] OTHER      -> "Unknown"

RelayTerminal == "GPIO17"

RelayBackupTerminal == "GPIO27"

NilPin == "nil"

\* GPIO{}: no pin, no name, zero debounce, zero time.  last is the age of
\* g.last saturated at g.debounce: of the zero time it is g.debounce.
ZeroGPIO == [pin |-> NilPin, name |-> "", debounce |-> 0, last |-> 0]

\* what host.Init and gpioreg.ByName can answer to one Claim
ClaimOutcomes == {"ok", "hostfail", "absent"}

\* GPIO.Claim(sn): the GPIO afterwards and the error returned
Claim(g, sn, outcome) ==
    CASE outcome = "hostfail" ->
            [g |-> g,
             err |-> Wrap(<<"host failed to initialize while claiming", sn>>, HostInitErr)]
      [] outcome = "absent" ->
            [g |-> [g EXCEPT !.pin = NilPin],
             err |-> Leaf(<<"failed to claim: pin is not present on host", sn>>)]
      [] OTHER ->
            [g |-> [g EXCEPT !.pin = sn, !.name = sn], err |-> Nil]

\* a constructor that leaves the state unread
ReceiveUnread(l) == "Unknown"

\* GPIO.Receive
Receive(l) == GetState(l)

\* the debounce window taken one time unit too short
DebouncedShort(g) == g.last + 1 < g.debounce

\* time.Now().Before(g.last.Add(g.debounce)), g.last kept as an age
Debounced(g) == g.last < g.debounce

\* GPIO.Send taking the time of the write before pin.Out has succeeded
SendStampFirst(g, s, lvl, outOk) ==
    IF Debounced(g)
    THEN [g |-> g, wrote |-> FALSE, lvl |-> lvl, err |-> Nil]
    ELSE IF ~outOk
         THEN [g |-> [g EXCEPT !.last = 0], wrote |-> TRUE, lvl |-> lvl,
               err |-> Wrap(<<"failed to send", s, g.name>>, PinOutErr)]
         ELSE [g |-> [g EXCEPT !.last = 0], wrote |-> TRUE, lvl |-> Level(s),
               err |-> Nil]

\* GPIO.Send returning nil when pin.Out has failed
SendSwallow(g, s, lvl, outOk) ==
    IF Debounced(g)
    THEN [g |-> g, wrote |-> FALSE, lvl |-> lvl, err |-> Nil]
    ELSE IF ~outOk
         THEN [g |-> g, wrote |-> TRUE, lvl |-> lvl, err |-> Nil]
         ELSE [g |-> [g EXCEPT !.last = 0], wrote |-> TRUE, lvl |-> Level(s),
               err |-> Nil]

\* GPIO.Send taking the time of a request it drops
SendStampDropped(g, s, lvl, outOk) ==
    IF Debounced(g)
    THEN [g |-> [g EXCEPT !.last = 0], wrote |-> FALSE, lvl |-> lvl, err |-> Nil]
    ELSE IF ~outOk
         THEN [g |-> g, wrote |-> TRUE, lvl |-> lvl,
               err |-> Wrap(<<"failed to send", s, g.name>>, PinOutErr)]
         ELSE [g |-> [g EXCEPT !.last = 0], wrote |-> TRUE, lvl |-> Level(s),
               err |-> Nil]

\* GPIO.Send without its debounce gate
SendUngated(g, s, lvl, outOk) ==
    IF ~outOk
    THEN [g |-> g, wrote |-> TRUE, lvl |-> lvl,
          err |-> Wrap(<<"failed to send", s, g.name>>, PinOutErr)]
    ELSE [g |-> [g EXCEPT !.last = 0], wrote |-> TRUE, lvl |-> Level(s), err |-> Nil]

\* GPIO.Send(s) on a claimed pin; outOk is whether pin.Out succeeds.
\* wrote: pin.Out was invoked; lvl: the level of the line afterwards.
Send(g, s, lvl, outOk) ==
    IF Debounced(g)
    THEN [g |-> g, wrote |-> FALSE, lvl |-> lvl, err |-> Nil]
    ELSE IF ~outOk
         THEN [g |-> g, wrote |-> TRUE, lvl |-> lvl,
               err |-> Wrap(<<"failed to send", s, g.name>>, PinOutErr)]
         ELSE [g |-> [g EXCEPT !.last = 0], wrote |-> TRUE, lvl |-> Level(s),
               err |-> Nil]

\* NewOptoRelaySwitch returning the backup terminal's error alone
NewRelayBackupErr(debounce, o1, o2, lvl) ==
    LET g0 == [ZeroGPIO EXCEPT !.debounce = debounce, !.last = debounce]
        c1 == Claim(g0, RelayTerminal, o1)
        c2 == Claim(c1.g, RelayBackupTerminal, o2)
        e2 == Wrap(<<"failed to initialize serial module on backup terminal">>, c2.err)
        a1 == [sn |-> RelayTerminal, err |-> c1.err]
        a2 == [sn |-> RelayBackupTerminal, err |-> c2.err]
    IN  IF c1.err = Nil
        THEN [state |-> Receive(lvl), gpio |-> c1.g, err |-> Nil, log |-> <<a1>>]
        ELSE IF c2.err = Nil
             THEN [state |-> Receive(lvl), gpio |-> c2.g, err |-> Nil,
                   log |-> <<a1, a2>>]
             ELSE [state |-> "Unknown", gpio |-> ZeroGPIO, err |-> e2,
                   log |-> <<a1, a2>>]

\* NewOptoRelaySwitch: the relay and the error it returns, given the
\* configured debounce, what the two claims answer and the level read.
NewRelay(debounce, o1, o2, lvl) ==
    LET g0 == [ZeroGPIO EXCEPT !.debounce = debounce, !.last = debounce]
        c1 == Claim(g0, RelayTerminal, o1)
        c2 == Claim(c1.g, RelayBackupTerminal, o2)
        e1 == Wrap(<<"failed to initialize serial module on default terminal">>, c1.err)
        e2 == Wrap(<<"failed to initialize serial module on backup terminal">>, c2.err)
        a1 == [sn |-> RelayTerminal, err |-> c1.err]
        a2 == [sn |-> RelayBackupTerminal, err |-> c2.err]
    IN  IF c1.err = Nil
        THEN [state |-> Receive(lvl), gpio |-> c1.g, err |-> Nil, log |-> <<a1>>]
        ELSE IF c2.err = Nil
             THEN [state |-> Receive(lvl), gpio |-> c2.g, err |-> Nil,
                   log |-> <<a1, a2>>]
             ELSE [state |-> "Unknown", gpio |-> ZeroGPIO,
                   err |-> Wrap2(<<";">>, e1, e2), log |-> <<a1, a2>>]

-----------------------------------------------------------------------------
(* OptoRelay.On / Off / Toggle as two steps: the entry (up to time.Sleep)   *)
(* and the write (gpio.Send and the assignment of state)                    *)

NoCall == [op |-> "none"]

Ops == {"On", "Off", "Toggle"}

\* Toggle always targeting On
TargetOn(op, s) ==
    CASE op = "On"  -> "On"
      [] op = "Off" -> "Off"
      [] OTHER      -> "On"

\* the state the operation writes
Target(op, s) ==
    CASE op = "On"  -> "On"
      [] op = "Off" -> "Off"
      [] OTHER      -> IF s = "On" THEN "Off" ELSE "On"

FailMsg(op) ==
    CASE op = "On"  -> <<"failed to turn on relay">>
      [] op = "Off" -> <<"failed to turn off relay">>
      [] OTHER      -> <<"failed to toggle relay">>

\* the operation goes on to its write
NoReturn == Leaf(<<"no early return">>)

\* Toggle without the check of the state's validity
EarlyReturnOnOff(op, s) ==
    IF (op = "On" /\ s = "On") \/ (op = "Off" /\ s = "Off") THEN Nil ELSE NoReturn

\* On and Off without the check of the current state
EarlyReturnToggle(op, s) ==
    IF op = "Toggle" /\ ~Valid(s)
    THEN Leaf(<<"unable to toggle invalid state", s>>)
    ELSE NoReturn

\* the early return of the operation: NoReturn, or what it returns at once
EarlyReturn(op, s) ==
    CASE op = "On" /\ s = "On"         -> Nil
      [] op = "Off" /\ s = "Off"       -> Nil
      [] op = "Toggle" /\ ~Valid(s)    -> Leaf(<<"unable to toggle invalid state", s>>)
      [] OTHER                         -> NoReturn

Summary(op, from, wrote, dropped, out, err) ==
    [op |-> op, from |-> from, wrote |-> wrote, dropped |-> dropped, out |-> out,
     err |-> err]

\* the history of the calls is kept where the relay is studied on its own,
\* in the end-to-end scenario, where only the pin fails and under Operate
Push(h, x) ==
    IF env \notin {"relay", "e2e", "faulty", "operate"} THEN h
    ELSE IF Len(h) < 2 THEN Append(h, x) ELSE <<h[2], x>>

\* whether pin.Out can fail here
OutOutcomes == IF env \in {"nominal", "e2e", "order"} THEN {TRUE} ELSE BOOLEAN

\* On / Off / Toggle going to gpio.Send without time.Sleep(d)
BeginNoSleep(op, d) ==
    /\ call = NoCall
    /\ IF EarlyReturn(op, state) # NoReturn
       THEN /\ ret' = EarlyReturn(op, state)
            /\ hist' = Push(hist, Summary(op, state, FALSE, FALSE, "none", ret'))
            /\ call' = NoCall
       ELSE /\ call' = [op |-> op, target |-> Target(op, state), timer |-> 0,
                        d |-> d, slept |-> 0]
            /\ UNCHANGED <<ret, hist>>
    /\ UNCHANGED <<state, gpio, level, mainPc, newErr, claimLog, obs>>

\* entry of On(d) / Off(d) / Toggle(d); the call in progress keeps the time
\* left of time.Sleep(d) and, as history, d and the time slept so far
Begin(op, d) ==
    /\ call = NoCall
    /\ IF EarlyReturn(op, state) # NoReturn
       THEN /\ ret' = EarlyReturn(op, state)
            /\ hist' = Push(hist, Summary(op, state, FALSE, FALSE, "none", ret'))
            /\ call' = NoCall
       ELSE /\ call' = [op |-> op, target |-> Target(op, state), timer |-> d,
                        d |-> d, slept |-> 0]
            /\ UNCHANGED <<ret, hist>>
    /\ UNCHANGED <<state, gpio, level, mainPc, newErr, claimLog, obs>>

\* the histories after pin.Out was invoked
Observe(o, ok) ==
    IF env # "relay" THEN o
    ELSE [outAge |-> 0, okAge |-> IF ok THEN 0 ELSE o.okAge,
          gapOut |-> o.outAge, gapOk |-> o.okAge]

\* after time.Sleep(d): gpio.Send(target), then the assignment of state
Write ==
    /\ call # NoCall
    /\ call.timer = 0
    /\ IF gpio.pin = NilPin
       THEN \* g.pin.Out on a nil pin: nil dereference
            /\ mainPc' = "panic"
            /\ call' = NoCall
            /\ UNCHANGED <<state, gpio, level, newErr, claimLog, ret, hist, obs>>
       ELSE \E outOk \in OutOutcomes :
            LET r == Send(gpio, call.target, level, outOk) IN
            /\ gpio' = r.g
            /\ level' = r.lvl
            /\ IF r.err # Nil
               THEN /\ state' = "Error"
                    /\ ret' = Wrap(FailMsg(call.op), r.err)
               ELSE /\ state' = call.target
                    /\ ret' = Nil
            /\ hist' = Push(hist, Summary(call.op, state, r.wrote, ~r.wrote,
                                          IF ~r.wrote THEN "none"
                                          ELSE IF outOk THEN "ok" ELSE "failed",
                                          ret'))
            /\ call' = NoCall
            /\ obs' = IF r.wrote THEN Observe(obs, r.err = Nil) ELSE obs
            /\ UNCHANGED <<mainPc, newErr, claimLog>>

Older(a) == IF a < AgeCap THEN a + 1 ELSE a

Sooner(t) == IF t > 0 THEN t - 1 ELSE 0

\* one time unit passes for the relay: sleeps get shorter, timestamps older
RelayTick ==
    /\ call' = IF call # NoCall
               THEN [call EXCEPT !.timer = Sooner(@),
                                 !.slept = IF @ < call.d THEN @ + 1 ELSE @]
               ELSE call
    /\ gpio' = [gpio EXCEPT !.last = IF @ < gpio.debounce THEN @ + 1 ELSE @]
    /\ obs' = IF env # "relay" THEN obs
              ELSE [obs EXCEPT !.outAge = Older(@), !.okAge = Older(@)]
    /\ UNCHANGED <<state, level, mainPc, newErr, claimLog, ret, hist>>

NoObs == [outAge |-> AgeCap, okAge |-> AgeCap, gapOut |-> AgeCap, gapOk |-> AgeCap]

-----------------------------------------------------------------------------
(* radar: Actor.Known, GetAction, the connect handler of BTSentry.Search    *)

\* config.RuntimeConfig.Actors.Known; an identifier is a sequence of characters
KnownActors == << <<"1", "a">> >>

\* the addresses of the devices in range, as device.Address.String() gives them
Devices == { <<"1", "A">>, <<"1", "B">> }

\* simple case folding of one character
Fold(c) ==
    CASE c = "A" -> "a"
      [] c = "B" -> "b"
      [] OTHER   -> c

\* strings.EqualFold taken for the equality of the strings
EqualExact(s, t) == s = t

\* strings.EqualFold
EqualFold(s, t) ==
    /\ Len(s) = Len(t)
    /\ \A i \in 1..Len(s) : Fold(s[i]) = Fold(t[i])

\* Actor.Known comparing the first character only
KnownByPrefix(id) ==
    \E i \in 1..Len(KnownActors) : Fold(id[1]) = Fold(KnownActors[i][1])

\* Actor.Known over the allow-list it ranges over
KnownIn(list, id) == \E i \in 1..Len(list) : EqualFold(id, list[i])

\* Actor.Known
Known(id) == KnownIn(KnownActors, id)

\* radar.GetAction with its two results exchanged
GetActionInverted(connected) == IF connected THEN "Exiting" ELSE "Entering"

\* radar.GetAction
GetAction(connected) == IF connected THEN "Entering" ELSE "Exiting"

\* the event of a sender goroutine as the goroutine is started: rank is the
\* history of the order of the handler invocations; Epoch, which the program
\* only prints, is read by the goroutine later and is followed only where
\* the order of the events is studied (0: not read, or not followed)
Event(device, connected) ==
    [actor |-> device, action |-> GetAction(connected), rank |-> created + 1,
     epoch |-> 0]

\* the connect handler with a flood guard that fires one event too late
HandlerLate(device, connected) ==
    IF Len(response) > ConnectionPoolSize
    THEN [path |-> "full"]
    ELSE IF ~Known(device)
         THEN [path |-> "unknown"]
         ELSE [path |-> "known", event |-> Event(device, connected)]

\* the connect handler, called with (device, connected): which of its three
\* paths it takes, and the event it hands to a sender goroutine
Handler(device, connected) ==
    IF Len(response) = ConnectionPoolSize
    THEN [path |-> "full"]
    ELSE IF ~Known(device)
         THEN [path |-> "unknown"]
         ELSE [path |-> "known", event |-> Event(device, connected)]

Max0(S) == IF S = {} THEN 0 ELSE CHOOSE x \in S : \A y \in S : y <= x

Idle == [pc |-> "idle"]

\* the goroutine of the unknown-actor branch without its time.Sleep
GraceNone(device) ==
    [device |-> device, pc |-> "grace", timer |-> 0, depth |-> 0, age |-> 0]

\* the goroutine of the unknown-actor branch, at its time.Sleep
Grace(device) ==
    [device |-> device, pc |-> "grace", timer |-> DisconnectionDelay, depth |-> 0,
     age |-> 0]

\* the goroutines the handler starts on the path h
Spawn(h, device, others) ==
    /\ senders' = IF h.path = "known" THEN senders \cup {h.event} ELSE senders
    /\ created' = IF h.path = "known" THEN created + 1 ELSE created
    /\ disconnectors' = IF h.path = "unknown"
                        THEN others (+) SetToBag({Grace(device)})
                        ELSE others

\* the handler was invoked for this device
Noted(device, connected) ==
    IF ~Known(device) THEN lastCb
    ELSE IF connected THEN "connect" ELSE "disconnect"

Running == mainPc = "ready"

\* handleDBusSignals calls the connect handler for a Connected signal
Callback(device, connected) ==
    /\ Running
    /\ listening
    /\ radio = Idle
    /\ callbacks < MaxCallbacks
    /\ callbacks' = callbacks + 1
    /\ lastCb' = Noted(device, connected)
    /\ LET h == Handler(device, connected) IN
       IF h.path = "full"
       THEN /\ radio' = [pc |-> "guard", device |-> device, depth |-> 1]
            /\ UNCHANGED <<senders, created, disconnectors>>
       ELSE /\ radio' = Idle
            /\ Spawn(h, device, disconnectors)
    /\ UNCHANGED <<env, auxVars, relayVars, loopVars, response, closed, requested, adv, listening>>

\* the flood guard of the signal goroutine, after its 100 ms:
\* device.Disconnect(), which first calls the handler with connected = false
RadioDisconnect ==
    /\ Running
    /\ radio # Idle
    /\ requested' = requested \cup {radio.device}
    /\ lastCb' = Noted(radio.device, FALSE)
    /\ LET h == Handler(radio.device, FALSE) IN
       IF h.path = "full"
       THEN /\ radio.depth < MaxDepth
            /\ radio' = [radio EXCEPT !.depth = @ + 1]
            /\ UNCHANGED <<senders, created, disconnectors>>
       ELSE /\ radio' = Idle
            /\ Spawn(h, radio.device, disconnectors)
    /\ UNCHANGED <<env, auxVars, relayVars, loopVars, response, closed, adv, listening, callbacks>>

\* a goroutine of the unknown-actor branch, after its grace delay or after
\* the 100 ms of a flood guard it ran into: device.Disconnect()
Disconnect(g) ==
    /\ Running
    /\ BagIn(g, disconnectors)
    /\ g.timer = 0
    /\ requested' = requested \cup {g.device}
    /\ lastCb' = Noted(g.device, FALSE)
    /\ LET h == Handler(g.device, FALSE)
           others == disconnectors (-) SetToBag({g})
       IN  IF h.path = "full"
           THEN /\ g.depth < MaxDepth
                /\ disconnectors' =
                     others (+) SetToBag({[g EXCEPT !.pc = "guard", !.depth = @ + 1]})
                /\ UNCHANGED <<senders, created>>
           ELSE Spawn(h, g.device, others)
    /\ UNCHANGED <<env, auxVars, relayVars, loopVars, response, closed, radio, adv, listening,
                   callbacks>>

\* time.Now() as an Epoch: later than the Epoch of every event that is
\* held by a sender, in the channel or in Manage's batch
Now ==
    1 + Max0({x.epoch : x \in senders \cup {response[i] : i \in 1..Len(response)}
                                     \cup {proc[i] : i \in 1..Len(proc)}})

\* a sender goroutine evaluates &Event{..., Epoch: time.Now()}
Stamp(e) ==
    /\ Running
    /\ env = "order"
    /\ e \in senders
    /\ e.epoch = 0
    /\ senders' = (senders \ {e}) \cup {[e EXCEPT !.epoch = Now]}
    /\ UNCHANGED <<env, auxVars, relayVars, loopVars, response, closed, created, radio,
                   disconnectors, requested, adv, listening, callbacks, lastCb>>

\* a sender goroutine: response <- event
Send2Channel(e) ==
    /\ Running
    /\ e \in senders
    /\ env = "order" => e.epoch # 0
    /\ IF closed
       THEN \* send on closed channel
            /\ mainPc' = "panic"
            /\ UNCHANGED <<response, senders>>
       ELSE /\ Len(response) < ConnectionPoolSize
            /\ response' = Append(response, e)
            /\ senders' = senders \ {e}
            /\ UNCHANGED mainPc
    /\ UNCHANGED <<env, auxVars, state, gpio, level, newErr, claimLog, call, ret, hist, obs,
                   loopVars, closed, created, radio, disconnectors, requested, adv,
                   listening, callbacks, lastCb>>

\* whether a call to BlueZ can fail here
RadioOutcomes ==
    IF env \in {"nominal", "e2e", "faulty", "order"} THEN {TRUE} ELSE BOOLEAN

\* the deferred close(response) of the advertise goroutine
Closing(stillListening, started) ==
    /\ closed' = TRUE
    /\ adv' = [pc |-> "exit", timer |-> 0, started |-> started]
    /\ listening' = stillListening

\* advertisement.Configure, which fails on a started advertisement
AdvConfigure ==
    /\ Running
    /\ adv.pc = "configure"
    /\ \E ok \in RadioOutcomes :
         IF ok /\ ~adv.started
         THEN /\ adv' = [adv EXCEPT !.pc = "start"]
              /\ UNCHANGED <<closed, listening>>
         ELSE Closing(listening, adv.started)
    /\ UNCHANGED <<env, auxVars, relayVars, loopVars, response, senders, created, radio,
                   disconnectors, requested, callbacks, lastCb>>

\* advertisement.Start, then time.Sleep(advertisementDelayMs); a Start that
\* fails may already have started handleDBusSignals
AdvStart ==
    /\ Running
    /\ adv.pc = "start"
    /\ \E ok \in RadioOutcomes, l \in BOOLEAN :
         IF ok THEN /\ l
                    /\ adv' = [pc |-> "wait", timer |-> AdvertisementDelay,
                               started |-> TRUE]
                    /\ listening' = TRUE
                    /\ UNCHANGED closed
         ELSE Closing(l, adv.started)
    /\ UNCHANGED <<env, auxVars, relayVars, loopVars, response, senders, created, radio,
                   disconnectors, requested, callbacks, lastCb>>

\* advertisement.Stop called before the advertisement window has passed
AdvStopEarly ==
    /\ Running
    /\ adv.pc = "wait"
    /\ \E ok \in RadioOutcomes, l \in BOOLEAN :
         IF ok THEN /\ ~l
                    /\ adv' = [pc |-> "configure", timer |-> 0, started |-> FALSE]
                    /\ listening' = FALSE
                    /\ UNCHANGED closed
         ELSE Closing(l, l)
    /\ UNCHANGED <<env, auxVars, relayVars, loopVars, response, senders, created, radio,
                   disconnectors, requested, callbacks, lastCb>>

\* advertisement.Stop; a Stop that fails at UnregisterAdvertisement leaves
\* the advertisement started and handleDBusSignals running, one that fails
\* later leaves it stopped with a.sigCh closed
AdvStop ==
    /\ Running
    /\ adv.pc = "wait"
    /\ adv.timer = 0
    /\ \E ok \in RadioOutcomes, l \in BOOLEAN :
         IF ok THEN /\ ~l
                    /\ adv' = [pc |-> "configure", timer |-> 0, started |-> FALSE]
                    /\ listening' = FALSE
                    /\ UNCHANGED closed
         ELSE Closing(l, l)
    /\ UNCHANGED <<env, auxVars, relayVars, loopVars, response, senders, created, radio,
                   disconnectors, requested, callbacks, lastCb>>

-----------------------------------------------------------------------------
(* main: Beaves.Manage                                                      *)

Sleeping == [pc |-> "sleep", timer |-> EventLoopDelay]

\* Manage acting upon the first event of the batch
ChosenFirst(p) == p[1]

\* the event of the batch Manage acts upon
Chosen(p) == p[Len(p)]

\* Manage with the two cases of its switch exchanged
OpForReversed(action) == IF action = "Entering" THEN "Off" ELSE "On"

\* the actuator call for an event
OpFor(action) == IF action = "Entering" THEN "On" ELSE "Off"

\* time.Sleep(EventLoopDelayMs) is over: proc := []
LoopWake ==
    /\ Running
    /\ loop.pc = "sleep"
    /\ loop.timer = 0
    /\ loop' = [pc |-> "drain", timer |-> 0]
    /\ proc' = <<>>
    /\ tickOps' = <<>>
    /\ UNCHANGED <<env, auxVars, relayVars, radarVars>>

\* a receive that leaves the event in the channel
LoopReceiveKeep ==
    /\ Running
    /\ loop.pc = "drain"
    /\ response # <<>>
    /\ proc' = Append(proc, Head(response))
    /\ UNCHANGED <<env, auxVars, relayVars, loop, tickOps, radarVars>>

\* loaderloop: case event, ok := <-events with ok
LoopReceive ==
    /\ Running
    /\ loop.pc = "drain"
    /\ response # <<>>
    /\ proc' = Append(proc, Head(response))
    /\ response' = Tail(response)
    /\ UNCHANGED <<env, auxVars, relayVars, loop, tickOps, closed, senders, created, radio,
                   disconnectors, requested, adv, listening, callbacks, lastCb>>

\* Manage leaving its loop on an empty channel, closed or not
LoopClosedOrEmpty ==
    /\ Running
    /\ loop.pc = "drain"
    /\ response = <<>>
    /\ loop' = [pc |-> "done", timer |-> 0]
    /\ mainPc' = "exited"
    /\ UNCHANGED <<env, auxVars, state, gpio, level, newErr, claimLog, call, ret,
                   hist, obs, radarVars, proc, tickOps>>

\* loaderloop: the receive reports the closed channel: break eventloop,
\* Manage returns nil and main returns
LoopClosed ==
    /\ Running
    /\ loop.pc = "drain"
    /\ response = <<>>
    /\ closed
    /\ loop' = [pc |-> "done", timer |-> 0]
    /\ mainPc' = "exited"
    /\ UNCHANGED <<env, auxVars, state, gpio, level, newErr, claimLog, call, ret, hist, obs,
                   radarVars, proc, tickOps>>

\* loaderloop: default, with an empty batch: continue
LoopEmpty ==
    /\ Running
    /\ loop.pc = "drain"
    /\ response = <<>>
    /\ ~closed
    /\ proc = <<>>
    /\ loop' = Sleeping
    /\ UNCHANGED <<env, auxVars, relayVars, radarVars, proc, tickOps>>

\* loaderloop: default, with a batch: the switch on the chosen event's Action
LoopAct ==
    /\ Running
    /\ loop.pc = "drain"
    /\ response = <<>>
    /\ ~closed
    /\ proc # <<>>
    /\ Begin(OpFor(Chosen(proc).action), SettleDelay)
    /\ tickOps' = Append(tickOps, OpFor(Chosen(proc).action))
    /\ loop' = [pc |-> "acting", timer |-> 0]
    /\ UNCHANGED <<env, auxVars, radarVars, proc>>

\* the write of the On/Off call Manage is in
LoopWrite ==
    /\ Running
    /\ loop.pc = "acting"
    /\ Write
    /\ UNCHANGED <<env, auxVars, radarVars, loopVars>>

\* Manage going on to its next iteration without waiting for On/Off
LoopContinueEarly ==
    /\ Running
    /\ loop.pc = "acting"
    /\ loop' = Sleeping
    /\ proc' = <<>>
    /\ tickOps' = <<>>
    /\ UNCHANGED <<env, auxVars, relayVars, radarVars>>

\* On/Off has returned (an error is logged): next iteration
LoopContinue ==
    /\ Running
    /\ loop.pc = "acting"
    /\ call = NoCall
    /\ loop' = Sleeping
    /\ proc' = <<>>
    /\ tickOps' = <<>>
    /\ UNCHANGED <<env, auxVars, relayVars, radarVars>>

-----------------------------------------------------------------------------
(* time                                                                     *)

RECURSIVE Total(_, _)
Total(B, S) ==
    IF S = {} THEN 0
    ELSE LET g == CHOOSE x \in S : TRUE IN B[g] + Total(B, S \ {g})

\* a goroutine one time unit later; age is the history of the time it has
\* existed, DisconnectionDelay meaning that long or longer
Waited(g) ==
    [g EXCEPT !.timer = Sooner(@),
              !.age = IF @ < DisconnectionDelay THEN @ + 1 ELSE @]

\* the bag of goroutines one time unit later
AllWaited(B) ==
    LET S == BagToSet(B)
        T == {Waited(g) : g \in S}
    IN  [t \in T |-> Total(B, {g \in S : Waited(g) = t})]

Tick ==
    /\ mainPc \in {"ready", "failed"}
    /\ RelayTick
    /\ loop' = [loop EXCEPT !.timer = Sooner(@)]
    /\ adv' = [adv EXCEPT !.timer = Sooner(@)]
    /\ disconnectors' = AllWaited(disconnectors)
    /\ UNCHANGED <<env, auxVars, response, closed, senders, created, radio, requested,
                   listening, callbacks, lastCb, proc, tickOps>>

-----------------------------------------------------------------------------
(* log: InfoMemoize                                                         *)

\* the formatted messages that are logged
Messages == {"A", "a", "b"}

\* the formatted message itself taken for the key
ToLowerExact(msg) == msg

\* strings.ToLower of a formatted message
ToLower(msg) == Fold(msg)

Keys == {ToLower(msg) : msg \in Messages}

\* the zero value memoizeLogs[log] yields for a key it does not hold
ZeroMemo == [exp |-> 0, count |-> 0]

\* InfoMemoize never setting Count back to 0
MemoizeKeepCount(m) ==
    IF m.exp > 0
    THEN [m |-> [m EXCEPT !.count = @ + 1], prints |-> FALSE, count |-> 0]
    ELSE [m |-> [exp |-> MemoWindow, count |-> m.count], prints |-> TRUE,
          count |-> m.count]

\* InfoMemoize on the entry m of its key: the entry afterwards, whether Info
\* is called, and the count in the line
Memoize(m) ==
    IF m.exp > 0
    THEN [m |-> [m EXCEPT !.count = @ + 1], prints |-> FALSE, count |-> 0]
    ELSE [m |-> [exp |-> MemoWindow, count |-> 0], prints |-> TRUE,
          count |-> m.count]

\* println: nothing is written with logging disabled
Println(out, line) == IF logEnabled THEN Append(out, line) ELSE out

\* the history of the calls: their number, the key of the last one, and for
\* each key the age of the call that last found no window open (MemoWindow:
\* that long ago or never), the calls since and including that one, and how
\* many of them wrote a line
NoLogHist ==
    [calls |-> 0, last |-> "",
     since |-> [k \in Keys |-> MemoWindow],
     n |-> [k \in Keys |-> 0],
     lines |-> [k \in Keys |-> 0]]

InfoMemoize(msg) ==
    LET k == ToLower(msg)
        r == Memoize(memoizeLogs[k])
        inside == logHist.since[k] < MemoWindow
    IN  /\ env = "log"
        /\ logHist.calls < MaxLogs
        /\ memoizeLogs' = [memoizeLogs EXCEPT ![k] = r.m]
        /\ printed' = IF r.prints
                      THEN Println(printed, [msg |-> msg, count |-> r.count])
                      ELSE printed
        /\ logHist' =
             [calls |-> logHist.calls + 1,
              last |-> k,
              since |-> IF inside THEN logHist.since
                        ELSE [logHist.since EXCEPT ![k] = 0],
              n |-> [logHist.n EXCEPT ![k] = IF inside THEN @ + 1 ELSE 1],
              lines |-> [logHist.lines EXCEPT
                           ![k] = (IF inside THEN @ ELSE 0)
                                  + (Len(printed') - Len(printed))]]
        /\ UNCHANGED <<env, logEnabled, concVars, lookup, operateVars, relayVars, radarVars, loopVars>>

\* one time unit passes for the logger
LogTick ==
    /\ env = "log"
    /\ memoizeLogs' = [k \in Keys |-> [memoizeLogs[k] EXCEPT !.exp = Sooner(@)]]
    /\ logHist' = [logHist EXCEPT
                     !.since = [k \in Keys |->
                                  IF logHist.since[k] < MemoWindow
                                  THEN logHist.since[k] + 1
                                  ELSE MemoWindow]]
    /\ UNCHANGED <<env, logEnabled, printed, concVars, lookup, operateVars, relayVars, radarVars, loopVars>>

\* the logger before its first call
NoLogs ==
    /\ memoizeLock = 0
    /\ callers = <<>>
    /\ memoizeLogs = [k \in Keys |-> ZeroMemo]
    /\ printed = <<>>
    /\ logHist = NoLogHist

\* no call of Actor.Known is studied
NoLookup == lookup = [pc |-> "off"]

\* no Beaves of the momentary-press variant is studied
NoBeaves == beaves = [pc |-> "none"] /\ completed = 0

\* logging enabled and nothing logged yet
Quiet == NoLogs /\ logEnabled = TRUE /\ NoLookup /\ NoBeaves

-----------------------------------------------------------------------------
(* the relay on its own: construction, then any caller of the Switch        *)
(* interface, with any settle delay                                         *)

\* no sentry and no event loop
NoPipeline ==
    /\ response = <<>>
    /\ closed = FALSE
    /\ senders = {}
    /\ created = 0
    /\ radio = Idle
    /\ disconnectors = EmptyBag
    /\ requested = {}
    /\ adv = [pc |-> "off", timer |-> 0, started |-> FALSE]
    /\ listening = FALSE
    /\ callbacks = 0
    /\ lastCb = "none"
    /\ loop = [pc |-> "off", timer |-> 0]
    /\ proc = <<>>
    /\ tickOps = <<>>

RelayInit ==
    /\ env = "relay"
    /\ state = "Unknown"
    /\ gpio \in {[ZeroGPIO EXCEPT !.debounce = d] : d \in 0..MaxDebounce}
    /\ level \in {"High", "Low"}
    /\ mainPc = "new"
    /\ newErr = Nil
    /\ claimLog = <<>>
    /\ call = NoCall
    /\ ret = Nil
    /\ hist = <<>>
    /\ obs = NoObs
    /\ NoPipeline
    /\ Quiet

NewOptoRelaySwitch ==
    /\ mainPc = "new"
    /\ \E o1 \in ClaimOutcomes, o2 \in ClaimOutcomes :
         LET r == NewRelay(gpio.debounce, o1, o2, level) IN
         /\ state' = r.state
         /\ gpio' = r.gpio
         /\ newErr' = r.err
         /\ claimLog' = r.log
         /\ mainPc' = IF r.err = Nil THEN "ready" ELSE "failed"
    /\ UNCHANGED <<env, auxVars, level, call, ret, hist, obs, radarVars, loopVars>>

\* a caller of the Switch interface calls On, Off or Toggle
SwitchCall ==
    /\ mainPc \in {"ready", "failed"}
    /\ \E op \in Ops, d \in 0..SettleDelay : Begin(op, d)
    /\ UNCHANGED <<env, auxVars, radarVars, loopVars>>

SwitchWrite ==
    /\ mainPc \in {"ready", "failed"}
    /\ Write
    /\ UNCHANGED <<env, auxVars, radarVars, loopVars>>

RelayNext == NewOptoRelaySwitch \/ SwitchCall \/ SwitchWrite \/ Tick

SpecRelay == RelayInit /\ [][RelayNext]_vars

-----------------------------------------------------------------------------
(* the logger on its own: any sequence of InfoMemoize calls at any times    *)

\* no relay, no sentry, no event loop
NoProgram ==
    /\ state = "Unknown"
    /\ gpio = ZeroGPIO
    /\ level = "Low"
    /\ mainPc = "new"
    /\ newErr = Nil
    /\ claimLog = <<>>
    /\ call = NoCall
    /\ ret = Nil
    /\ hist = <<>>
    /\ obs = NoObs
    /\ NoPipeline

LogInit ==
    /\ env = "log"
    /\ NoProgram
    /\ NoLogs
    /\ logEnabled \in BOOLEAN
    /\ NoLookup
    /\ NoBeaves

LogNext ==
    \/ \E msg \in Messages : InfoMemoize(msg)
    \/ LogTick

SpecLog == LogInit /\ [][LogNext]_vars

-----------------------------------------------------------------------------
(* the logger called by several goroutines at once, the steps of            *)
(* InfoMemoize followed one by one; the calls fall within one window        *)

ConcInit ==
    /\ env = "conc"
    /\ NoProgram
    /\ memoizeLogs = [k \in Keys |-> ZeroMemo]
    /\ printed = <<>>
    /\ logHist = NoLogHist
    /\ logEnabled \in BOOLEAN
    /\ memoizeLock = 0
    /\ callers \in [1..MaxCallers -> [msg : Messages, pc : {"lock"}, m : {ZeroMemo}]]
    /\ NoLookup
    /\ NoBeaves

\* sync.Mutex.Lock as a lock that any goroutine can take at any time
LockableAlways(t) == TRUE

\* sync.Mutex.Lock: goroutine t can take the lock
Lockable(t) == memoizeLock = 0

\* memoizeLock.Lock()
MemoLock(t) ==
    /\ callers[t].pc = "lock"
    /\ Lockable(t)
    /\ memoizeLock' = t
    /\ callers' = [callers EXCEPT ![t].pc = "read"]
    /\ UNCHANGED <<env, logVars, lookup, operateVars, relayVars, radarVars, loopVars>>

\* m := memoizeLogs[log]
MemoRead(t) ==
    /\ callers[t].pc = "read"
    /\ callers' = [callers EXCEPT ![t].pc = "write",
                                  ![t].m = memoizeLogs[ToLower(callers[t].msg)]]
    /\ UNCHANGED <<env, logVars, memoizeLock, lookup, operateVars, relayVars, radarVars,
                   loopVars>>

\* the test of m.Exp and memoizeLogs[log] = m on either branch
MemoWrite(t) ==
    /\ callers[t].pc = "write"
    /\ LET r == Memoize(callers[t].m) IN
       /\ memoizeLogs' = [memoizeLogs EXCEPT ![ToLower(callers[t].msg)] = r.m]
       /\ callers' = [callers EXCEPT ![t].pc = IF r.prints THEN "info" ELSE "unlock"]
    /\ UNCHANGED <<env, logEnabled, printed, logHist, memoizeLock, lookup, operateVars,
                   relayVars, radarVars, loopVars>>

\* Info(... count ...)
MemoInfo(t) ==
    /\ callers[t].pc = "info"
    /\ printed' = Println(printed, [msg |-> callers[t].msg, count |-> callers[t].m.count])
    /\ callers' = [callers EXCEPT ![t].pc = "unlock"]
    /\ UNCHANGED <<env, memoizeLogs, logEnabled, logHist, memoizeLock, lookup, operateVars,
                   relayVars, radarVars, loopVars>>

\* the deferred memoizeLock.Unlock()
MemoUnlock(t) ==
    /\ callers[t].pc = "unlock"
    /\ memoizeLock' = 0
    /\ callers' = [callers EXCEPT ![t].pc = "done"]
    /\ UNCHANGED <<env, logVars, lookup, operateVars, relayVars, radarVars, loopVars>>

ConcNext ==
    \E t \in 1..MaxCallers :
        \/ MemoLock(t)
        \/ MemoRead(t)
        \/ MemoWrite(t)
        \/ MemoInfo(t)
        \/ MemoUnlock(t)

SpecConc == ConcInit /\ [][ConcNext]_vars

-----------------------------------------------------------------------------
(* Actor.Known on its own: any identifier against any allow-list            *)

Strings(letters, n) == UNION {[1..k -> letters] : k \in 0..n}

\* the identifiers asked for and the entries of the allow-lists
Ids == Strings({"A", "a", "b"}, MaxIdLen)

Entries == Strings({"a", "B"}, MaxIdLen)

Lists == UNION {[1..k -> Entries] : k \in 0..MaxKnown}

KnownInit ==
    /\ env = "known"
    /\ NoProgram
    /\ NoLogs
    /\ logEnabled = TRUE
    /\ NoBeaves
    /\ lookup \in [list : Lists, id : Ids, pc : {"call"}, result : {FALSE},
                   after : {<<>>}]

\* a.Known() returns
KnownReturn ==
    /\ lookup.pc = "call"
    /\ lookup' = [lookup EXCEPT !.pc = "done",
                                !.result = KnownIn(lookup.list, lookup.id),
                                !.after = lookup.list]
    /\ UNCHANGED <<env, relayVars, radarVars, loopVars, logVars, concVars, operateVars>>

KnownNext == KnownReturn

SpecKnown == KnownInit /\ [][KnownNext]_vars

-----------------------------------------------------------------------------
(* the momentary-press variant: Beaves.Operate called at any times on the   *)
(* relay main constructed                                                   *)

\* time.Now().Before(b.last.Add(b.Delay)) taken for not After
GatedInclusive(b) == b.last <= b.delay

\* time.Now().Before(b.last.Add(b.Delay)); the zero b.last is the age b.delay
Gated(b) == b.last < b.delay

OperateInit ==
    /\ env = "operate"
    /\ state = "Unknown"
    /\ gpio \in {[ZeroGPIO EXCEPT !.debounce = d] : d \in {0, MaxDebounce}}
    /\ level \in {"High", "Low"}
    /\ mainPc = "new"
    /\ newErr = Nil
    /\ claimLog = <<>>
    /\ call = NoCall
    /\ ret = Nil
    /\ hist = <<>>
    /\ obs = NoObs
    /\ NoPipeline
    /\ NoLogs
    /\ logEnabled = TRUE
    /\ NoLookup
    /\ beaves \in {[delay |-> d, last |-> d, pc |-> "idle", ret |-> Nil] :
                   d \in 0..MaxDelay}
    /\ completed = MaxDelay

\* b.Operate(s) is called: the gate, or s.On up to its time.Sleep
Operate ==
    /\ mainPc = "ready"
    /\ beaves.pc = "idle"
    /\ IF Gated(beaves)
       THEN /\ beaves' = [beaves EXCEPT !.pc = "returned", !.ret = Nil]
            /\ UNCHANGED relayVars
       ELSE /\ Begin("On", SettleDelay)
            /\ beaves' = [beaves EXCEPT !.pc = "On"]
    /\ UNCHANGED <<env, completed, radarVars, loopVars, logVars, concVars, lookup>>

\* s.On has returned: its error is returned, or s.Off up to its time.Sleep
OperateOff ==
    /\ beaves.pc = "On"
    /\ call = NoCall
    /\ IF ret # Nil
       THEN /\ beaves' = [beaves EXCEPT !.pc = "returned", !.ret = ret]
            /\ UNCHANGED relayVars
       ELSE /\ Begin("Off", SettleDelay)
            /\ beaves' = [beaves EXCEPT !.pc = "Off"]
    /\ UNCHANGED <<env, completed, radarVars, loopVars, logVars, concVars, lookup>>

\* s.Off has returned: its error is returned, or b.last = time.Now()
OperateReturn ==
    /\ beaves.pc = "Off"
    /\ call = NoCall
    /\ beaves' = IF ret # Nil
                 THEN [beaves EXCEPT !.pc = "returned", !.ret = ret]
                 ELSE [beaves EXCEPT !.pc = "returned", !.ret = Nil, !.last = 0]
    /\ completed' = IF ret = Nil THEN 0 ELSE completed
    /\ UNCHANGED <<env, relayVars, radarVars, loopVars, logVars, concVars, lookup>>

\* the caller goes on after Operate returned
OperateResume ==
    /\ beaves.pc = "returned"
    /\ beaves' = [beaves EXCEPT !.pc = "idle"]
    /\ UNCHANGED <<env, completed, relayVars, radarVars, loopVars, logVars, concVars, lookup>>

\* one time unit passes
OperateTick ==
    /\ mainPc = "ready"
    /\ RelayTick
    /\ beaves' = [beaves EXCEPT !.last = IF @ < beaves.delay THEN @ + 1 ELSE @]
    /\ completed' = IF completed < MaxDelay THEN completed + 1 ELSE completed
    /\ UNCHANGED <<env, radarVars, loopVars, logVars, concVars, lookup>>

OperateNext ==
    \/ NewOptoRelaySwitch
    \/ Operate
    \/ SwitchWrite
    \/ OperateOff
    \/ OperateReturn
    \/ OperateResume
    \/ OperateTick

SpecOperate == OperateInit /\ [][OperateNext]_vars

-----------------------------------------------------------------------------
(* the program: main after NewBTSentry and NewOptoRelaySwitch returned      *)
(* without error, in Manage after Search                                    *)

Started(e, windows) ==
    /\ env = e
    /\ level \in {"High", "Low"}
    /\ state = GetState(level)
    /\ gpio \in {[pin |-> RelayTerminal, name |-> RelayTerminal, debounce |-> d,
                  last |-> d] : d \in windows}
    /\ mainPc = "ready"
    /\ newErr = Nil
    /\ claimLog = <<[sn |-> RelayTerminal, err |-> Nil]>>
    /\ call = NoCall
    /\ ret = Nil
    /\ hist = <<>>
    /\ obs = NoObs
    /\ response = <<>>
    /\ closed = FALSE
    /\ senders = {}
    /\ created = 0
    /\ radio = Idle
    /\ disconnectors = EmptyBag
    /\ requested = {}
    /\ adv = [pc |-> "configure", timer |-> 0, started |-> FALSE]
    /\ listening = FALSE
    /\ callbacks = 0
    /\ lastCb = "none"
    /\ loop = Sleeping
    /\ proc = <<>>
    /\ tickOps = <<>>
    /\ Quiet

Init == Started("any", {0, MaxDebounce})

Radar ==
    \/ \E device \in Devices, connected \in BOOLEAN : Callback(device, connected)
    \/ RadioDisconnect
    \/ \E g \in BagToSet(disconnectors) : Disconnect(g)
    \/ \E e \in senders : Send2Channel(e)
    \/ AdvConfigure
    \/ AdvStart
    \/ AdvStop

Manage ==
    \/ LoopWake
    \/ LoopReceive
    \/ LoopClosed
    \/ LoopEmpty
    \/ LoopAct
    \/ LoopWrite
    \/ LoopContinue

Next == Radar \/ Manage \/ Tick

Spec == Init /\ [][Next]_vars

-----------------------------------------------------------------------------
(* the program with every goroutine that can run running eventually and     *)
(* time passing; the signals of the radio stack come as they please         *)

Senders == \E e \in senders : Send2Channel(e)

Disconnectors == \E g \in BagToSet(disconnectors) : Disconnect(g)

Advertise == AdvConfigure \/ AdvStart \/ AdvStop

Fairness ==
    /\ WF_vars(Manage)
    /\ WF_vars(Tick)
    /\ WF_vars(Senders)
    /\ WF_vars(RadioDisconnect)
    /\ WF_vars(Disconnectors)
    /\ WF_vars(Advertise)

SpecLive == Spec /\ Fairness

-----------------------------------------------------------------------------
(* the program with a radio stack and a pin driver that never fail          *)

NominalManage ==
    \/ LoopWake
    \/ LoopReceive
    \/ LoopEmpty
    \/ LoopAct
    \/ LoopWrite
    \/ LoopContinue

NominalNext == Radar \/ NominalManage \/ Tick

SpecNominal == Started("nominal", {0, MaxDebounce}) /\ [][NominalNext]_vars

-----------------------------------------------------------------------------
(* the same with every goroutine that can run running eventually and time   *)
(* passing                                                                  *)

\* the goroutines of the unknown-actor branch that are through their sleep
Ready ==
    [device : Devices, pc : {"grace", "guard"}, timer : {0}, depth : 0..MaxDepth,
     age : {DisconnectionDelay}]

NominalFairness ==
    /\ WF_vars(NominalManage)
    /\ WF_vars(Tick)
    /\ WF_vars(Senders)
    /\ WF_vars(RadioDisconnect)
    /\ \A g \in Ready : WF_vars(Disconnect(g))
    /\ WF_vars(Advertise)

SpecNominalLive == SpecNominal /\ NominalFairness

-----------------------------------------------------------------------------
(* the program with a radio stack that never fails and a pin driver that    *)
(* may fail at any write                                                    *)

SpecFaulty == Started("faulty", {0, MaxDebounce}) /\ [][NominalNext]_vars

-----------------------------------------------------------------------------
(* the program with a radio stack and a pin driver that never fail, and the *)
(* Epoch of the events followed                                             *)

OrderNext ==
    \/ Radar
    \/ \E e \in senders : Stamp(e)
    \/ NominalManage
    \/ Tick

SpecOrder == Started("order", {0}) /\ [][OrderNext]_vars

-----------------------------------------------------------------------------
(* the end-to-end scenario: radio and pin never fail, the relay starts Off  *)
(* with a debounce window no longer than a sampling interval and the settle *)
(* delay, an allow-listed device connects, and disconnects in a sampling    *)
(* interval after the tick that acted on its connection                     *)

E2EInit ==
    /\ Started("e2e", 0..(EventLoopDelay + SettleDelay))
    /\ level = "Low"

\* the On call that switched the relay on has returned
SwitchedOn == Len(hist) = 1 /\ hist[1].op = "On" /\ hist[1].err = Nil

E2ECallback ==
    \E device \in {d \in Devices : Known(d)} :
        \/ callbacks = 0 /\ Callback(device, TRUE)
        \/ callbacks = 1 /\ SwitchedOn /\ loop.pc = "sleep" /\ Callback(device, FALSE)

E2ENext ==
    \/ E2ECallback
    \/ \E e \in senders : Send2Channel(e)
    \/ AdvConfigure
    \/ AdvStart
    \/ AdvStop
    \/ NominalManage
    \/ Tick

SpecE2E == E2EInit /\ [][E2ENext]_vars

-----------------------------------------------------------------------------
(* properties                                                               *)

Range(q) == {q[i] : i \in 1..Len(q)}

\* every event there is: held by a sender, in the channel, in Manage's batch
AllEvents == senders \cup Range(response) \cup Range(proc)

\* upper-case letters of the identifiers and their lower-case forms
CasePairs == {<<"A", "a">>, <<"B", "b">>}

SameLetter(c, d) == c = d \/ <<c, d>> \in CasePairs \/ <<d, c>> \in CasePairs

\* the identifier equals an allow-list entry up to the case of its letters
AllowListed(id) ==
    \E i \in 1..Len(KnownActors) :
        /\ Len(id) = Len(KnownActors[i])
        /\ \A k \in 1..Len(id) : SameLetter(id[k], KnownActors[i][k])

\* C1: every event that is ever constructed, handed to a sender or placed on
\* the event channel carries an actor whose identifier matches an allow-list
\* entry case-insensitively; an identifier outside the allow-list never
\* yields an event.
C1_OnlyAllowListed == \A e \in AllEvents : AllowListed(e.actor)

\* C1 witness: an event of the device whose address differs from the
\* allow-list entry in case is on the channel, and a device outside the
\* allow-list has been through the handler and was disconnected.
C1_Witness ==
    /\ \E e \in Range(response) : e.actor = <<"1", "A">>
    /\ <<"1", "B">> \in requested

Full == Len(response) = ConnectionPoolSize

NoEnqueue == senders' = senders /\ created' = created /\ response' = response

\* the goroutines of the bag B that are in a flood guard for the device
Guarding(B, device) == {g \in BagToSet(B) : g.pc = "guard" /\ g.device = device}

\* C2 (state part): the channel never holds more than connectionPoolSize events.
C2_Bounded == Len(response) <= ConnectionPoolSize

\* C2 (step part): a handler invocation that finds the channel at capacity
\* constructs and enqueues no event, whoever the actor is, and goes to the
\* flood guard, which is left only by calling Device.Disconnect on the device.
C2_Rejects ==
    /\ \A device \in Devices, connected \in BOOLEAN :
         Callback(device, connected) /\ Full =>
            NoEnqueue /\ radio' = [pc |-> "guard", device |-> device, depth |-> 1]
    /\ RadioDisconnect /\ Full =>
            NoEnqueue /\ radio'.pc = "guard" /\ radio'.device = radio.device
    /\ \A g \in BagToSet(disconnectors) :
         Disconnect(g) /\ Full => NoEnqueue /\ Guarding(disconnectors', g.device) # {}
    /\ radio # Idle /\ radio' # radio => radio.device \in requested'
    /\ \A g \in BagToSet(disconnectors) :
         g.pc = "guard" /\ CopiesIn(g, disconnectors') < CopiesIn(g, disconnectors)
            => g.device \in requested'

\* C2: the event channel never holds more than connectionPoolSize events and
\* a callback that finds it at capacity is rejected: no event is enqueued
\* and a disconnect of the device is requested.
C2_FloodGuard == []C2_Bounded /\ [][C2_Rejects]_vars

\* C2 witness: the channel is at capacity and the callback of an
\* allow-listed device sits in the flood guard, no event made for it.
C2_Witness ==
    /\ Full
    /\ radio # Idle
    /\ Known(radio.device)
    /\ senders = {}

\* C3: the connect handler never waits in the calling context of the radio
\* stack: the signal goroutine is never inside the handler at a time.Sleep.
C3_NeverWaits == radio = Idle

C4_Tick ==
    /\ loop.pc = "acting" =>
          /\ proc # <<>>
          /\ tickOps = <<OpFor(proc[Len(proc)].action)>>
          /\ call # NoCall => call.op = tickOps[1]
    /\ loop.pc # "acting" => tickOps = <<>> /\ call = NoCall

C4_EmptyTick ==
    /\ loop.pc = "drain" /\ loop'.pc = "sleep" =>
          proc = <<>> /\ call' = NoCall /\ state' = state /\ level' = level
    /\ loop.pc = "drain" /\ loop'.pc = "acting" => ~closed
    /\ state' # state \/ level' # level => loop.pc = "acting"

Settled ==
    /\ lastCb # "none"
    /\ radio = Idle
    /\ senders = {}
    /\ response = <<>>
    /\ proc = <<>>
    /\ loop.pc = "sleep"
    /\ call = NoCall

\* C5: with writes that succeed and a stream that stays open, once every
\* callback has been worked off the relay is in the state of the last
\* callback: On and High after a connect, Off and Low after a disconnect.
C5_Converges ==
    Settled =>
        /\ state = IF lastCb = "connect" THEN "On" ELSE "Off"
        /\ level = Level(state)

\* the InfoMemoize call of this step, if it is one
LogCalled == logHist'.calls = logHist.calls + 1

\* the window of a key is open: the call that opened it is less than
\* MemoWindow old
WindowOpen(k) == logHist.since[k] < MemoWindow

\* with logging enabled, the n calls made for a key since its window was
\* opened have written one line between them, and n - 1 are counted
C11_OneLine ==
    \A k \in Keys :
        logHist.n[k] >= 1 =>
            /\ logEnabled => logHist.lines[k] = 1
            /\ ~logEnabled => printed = <<>>
            /\ memoizeLogs[k].count = logHist.n[k] - 1

\* a call inside the window writes nothing; a call with no window open
\* writes a line with the count of the calls suppressed in the last window
\* and opens a window with the counter at 0
C11_Call ==
    LogCalled =>
        LET k == logHist'.last IN
        IF WindowOpen(k)
        THEN printed' = printed
        ELSE /\ logEnabled =>
                  /\ Len(printed') = Len(printed) + 1
                  /\ ToLower(printed'[Len(printed')].msg) = k
                  /\ printed'[Len(printed')].count =
                        IF logHist.n[k] = 0 THEN 0 ELSE logHist.n[k] - 1
             /\ memoizeLogs'[k] = [exp |-> MemoWindow, count |-> 0]

\* C11: n >= 1 calls of InfoMemoize with the same formatted message inside
\* one window print exactly one line, the first; the next call after the
\* window has passed prints at once, with the count n - 1, and opens a new
\* window with the counter at 0.
C11_Memoize == []C11_OneLine /\ [][C11_Call]_vars

\* C11 witness: five calls inside one window, and the call after the window
\* has written the line with the count 4.
C11_Witness ==
    /\ logEnabled
    /\ Len(printed) = 2
    /\ printed[2].count = 4
    /\ logHist.calls = 6

TurnedOn == Summary("On", "Off", TRUE, FALSE, "ok", Nil)

TurnedOff == Summary("Off", "On", TRUE, FALSE, "ok", Nil)

E2ETrace ==
    /\ callbacks <= 2
    /\ created = callbacks
    /\ \A e \in AllEvents : e.action = IF e.rank = 1 THEN "Entering" ELSE "Exiting"
    /\ callbacks = 0 => hist = <<>>
    /\ callbacks = 1 => hist \in {<<>>, <<TurnedOn>>}
    /\ callbacks = 2 => hist \in {<<TurnedOn>>, <<TurnedOn, TurnedOff>>}
    /\ Len(hist) \in {0, 2} => state = "Off" /\ level = "Low"
    /\ Len(hist) = 1 => state = "On" /\ level = "High"

\* the tick that finds the event acts upon it, and upon it alone
E2ETick ==
    /\ loop.pc = "drain" /\ loop'.pc = "sleep" => response = <<>> /\ proc = <<>>
    /\ loop.pc = "drain" /\ loop'.pc = "acting" =>
          /\ Len(proc) = 1
          /\ call' # NoCall
          /\ call'.op = IF proc[1].action = "Entering" THEN "On" ELSE "Off"
    /\ loop.pc = "acting" /\ loop'.pc = "sleep" => Len(hist) = proc[1].rank

\* C6: in the end-to-end scenario the connect callback makes exactly one
\* Entering event and the tick that receives it takes the relay from Off to
\* On with one write of High; the disconnect callback in a later sampling
\* interval makes exactly one Exiting event and the tick that receives it
\* takes the relay from On to Off with one write of Low.
C6_EndToEnd == []E2ETrace /\ [][E2ETick]_vars

\* C6 witness: both callbacks were delivered and both writes made, the second
\* a full debounce window after the first.
C6_Witness ==
    /\ callbacks = 2
    /\ hist = <<TurnedOn, TurnedOff>>
    /\ gpio.debounce = EventLoopDelay + SettleDelay
    /\ state = "Off"
    /\ level = "Low"

\* C7 (as claimed): any two invocations of pin.Out, successful or not, are
\* at least the debounce window apart.
C7_AnyTwoWrites == obs.gapOut >= gpio.debounce

\* C7 (amended): every invocation of pin.Out comes at least the debounce
\* window after the previous invocation that succeeded; a failed write does
\* not start a window.
C7_AfterSuccess == obs.gapOk >= gpio.debounce

\* C7 witness: pin.Out has just been invoked exactly one debounce window
\* after the previous successful write.
C7_Witness ==
    /\ gpio.debounce > 0
    /\ gpio.debounce < AgeCap
    /\ obs.outAge = 0
    /\ obs.gapOk = gpio.debounce

\* the step in which an On/Off/Toggle call reaches gpio.Send and returns
SendStep == call # NoCall /\ call' = NoCall /\ mainPc' = mainPc

\* C8: a gpio.Send strictly inside the debounce window of the previous
\* successful write invokes pin.Out zero times, returns no error and leaves
\* nothing behind that would write later: pin.Out is only ever invoked in
\* the step of a call that reaches gpio.Send.
C8_Dropped ==
    /\ SendStep /\ obs.okAge < gpio.debounce =>
          /\ ~hist'[Len(hist')].wrote
          /\ hist'[Len(hist')].dropped
          /\ ret' = Nil
          /\ level' = level
          /\ gpio' = gpio
          /\ obs' = obs
    /\ level' # level \/ obs'.outAge < obs.outAge => SendStep /\ call.timer = 0

C8_DebouncedWrite == [][C8_Dropped]_vars

\* C8 witness: the last call was dropped by the debounce gate, returned nil
\* and no call is in progress.
C8_Witness ==
    /\ Len(hist) >= 1
    /\ hist[Len(hist)].dropped
    /\ hist[Len(hist)].err = Nil
    /\ obs.okAge < gpio.debounce
    /\ call = NoCall

\* the last two completed calls were both On or both Off
Twice == Len(hist) = 2 /\ hist[1].op = hist[2].op /\ hist[1].op \in {"On", "Off"}

Writes == (IF hist[1].wrote THEN 1 ELSE 0) + (IF hist[2].wrote THEN 1 ELSE 0)

\* C9 (as claimed): On twice in succession (Off twice in succession) invokes
\* pin.Out exactly once in total.
C9_ExactlyOnce == Twice => Writes = 1

\* C9 (amended): if the first of two successive On (Off) calls returns nil,
\* the second is a no-op, so the two invoke pin.Out at most once: exactly
\* once when the relay was not in the target state before and the first
\* call's write was not dropped by the debounce gate, and not at all otherwise.
C9_SecondIsNoOp ==
    Twice /\ hist[1].err = Nil =>
        /\ ~hist[2].wrote
        /\ hist[2].err = Nil
        /\ Writes = IF hist[1].from # hist[1].op /\ ~hist[1].dropped THEN 1 ELSE 0

\* C9 witness: On was called twice in succession, the first call wrote and
\* the second did not.
C9_Witness ==
    /\ Twice
    /\ hist[1].op = "On"
    /\ hist[1].wrote
    /\ hist[1].err = Nil
    /\ ~hist[2].wrote

\* C10: NewOptoRelaySwitch claims GPIO17 first; it tries GPIO27 exactly when
\* that claim failed; with GPIO27 claimed it returns no error and the relay
\* uses GPIO27; with both claims failed the error it returns wraps both
\* failures.
C10_Fallback ==
    mainPc # "new" =>
        /\ Len(claimLog) \in {1, 2}
        /\ claimLog[1].sn = RelayTerminal
        /\ Len(claimLog) = 2 <=> claimLog[1].err # Nil
        /\ Len(claimLog) = 1 => newErr = Nil /\ gpio.pin = RelayTerminal
        /\ Len(claimLog) = 2 =>
              /\ claimLog[2].sn = RelayBackupTerminal
              /\ claimLog[2].err = Nil =>
                    /\ newErr = Nil
                    /\ gpio.pin = RelayBackupTerminal
                    /\ gpio.name = RelayBackupTerminal
              /\ claimLog[2].err # Nil =>
                    /\ newErr # Nil
                    /\ Is(newErr, claimLog[1].err)
                    /\ Is(newErr, claimLog[2].err)
                    /\ mainPc # "ready"

\* C10 witness: both claims failed, for different reasons.
C10_Witness ==
    /\ mainPc = "failed"
    /\ Is(claimLog[1].err, HostInitErr)
    /\ ~Is(claimLog[2].err, HostInitErr)
    /\ newErr # Nil

\* the documented transitions of the relay's state
Documented ==
    {<<"Unknown", "On">>, <<"Unknown", "Off">>, <<"On", "Off">>, <<"Off", "On">>,
     <<"On", "Error">>, <<"Off", "Error">>, <<"Error", "On">>, <<"Error", "Off">>}

C12_Step ==
    state' # state =>
        /\ <<state, state'>> \in Documented
        /\ \/ mainPc = "new" /\ mainPc' # "new"
           \/ call # NoCall /\ call.timer = 0 /\ call' = NoCall

\* C12: every change of OptoRelay.state is a documented transition, never
\* leads to Unknown, and is made by the constructor or by an On, Off or
\* Toggle call at its assignment after gpio.Send.
C12_DocumentedOnly == [][C12_Step]_vars

\* C12 witness: a call has just taken the state from Error to On with a
\* write that was performed.
C12_Witness ==
    /\ Len(hist) >= 1
    /\ hist[Len(hist)].from = "Error"
    /\ hist[Len(hist)].wrote
    /\ state = "On"

\* in the Error state no debounce window is open: the last successful write
\* is at least the debounce window old
C13_NoWindowInError == state = "Error" => obs.okAge >= gpio.debounce

\* the state leaves Error only in an On or Off call whose write was
\* performed and succeeded
C13_Leaves ==
    state = "Error" /\ state' # "Error" =>
        /\ SendStep
        /\ call.op \in {"On", "Off"}
        /\ hist'[Len(hist')].wrote
        /\ ~hist'[Len(hist')].dropped
        /\ ret' = Nil
        /\ obs'.outAge = 0 /\ obs'.okAge = 0
        /\ state' = call.op
        /\ level' = Level(state')

\* C13: Error is sticky: the state stays Error until an On or Off call whose
\* hardware write was performed and succeeded; no call whose write is dropped
\* by the debounce gate takes the state out of Error.
C13_ErrorSticky == []C13_NoWindowInError /\ [][C13_Leaves]_vars

\* C13 witness: a call found the state Error and failed again, the next
\* call left Error with a write that succeeded.
C13_Witness ==
    /\ Len(hist) = 2
    /\ hist[1].from = "Error" /\ hist[1].err # Nil
    /\ hist[2].from = "Error" /\ hist[2].wrote /\ hist[2].err = Nil
    /\ gpio.debounce > 0
    /\ state \in {"On", "Off"}

\* Toggle was called and goes on to its sleep
ToggleWaits == call = NoCall /\ call' # NoCall /\ call'.op = "Toggle"

\* Toggle was called and returned at once
ToggleReturned ==
    /\ call = NoCall
    /\ call' = NoCall
    /\ hist' # hist
    /\ hist'[Len(hist')].op = "Toggle"

C14_Step ==
    /\ ToggleWaits => Valid(state)
    /\ SendStep /\ call.op = "Toggle" => Valid(state)
    /\ ToggleReturned =>
          /\ ~Valid(state)
          /\ ret' # Nil
          /\ ~hist'[Len(hist')].wrote
          /\ state' = state
          /\ gpio' = gpio
          /\ level' = level
          /\ obs' = obs

\* C14: Toggle called with the state Unknown or Error returns an error at
\* once, without the settle delay and without gpio.Send, and leaves the
\* state, the pin and the debounce timestamp as they were.
C14_ToggleInvalid == [][C14_Step]_vars

\* C14 witness: Toggle has just returned its error on the state Error, with
\* a debounce window configured.
C14_Witness ==
    /\ Len(hist) >= 1
    /\ hist[Len(hist)].op = "Toggle"
    /\ hist[Len(hist)].from = "Error"
    /\ ret # Nil
    /\ state = "Error"
    /\ gpio.debounce > 0
    /\ call = NoCall

\* the step in which the On/Off call of Manage reaches gpio.Send and returns
LoopWriteStep == loop.pc = "acting" /\ SendStep

\* pin.Out was invoked in this step and returned an error
WriteFailed == hist'[Len(hist')].out = "failed"

C15_Step ==
    /\ LoopWriteStep /\ WriteFailed =>
          /\ state' = "Error"
          /\ ret' # Nil
          /\ Is(ret', PinOutErr)
          /\ level' = level
    /\ LoopWriteStep /\ ret' # Nil => WriteFailed
    /\ loop.pc = "acting" /\ loop'.pc # "acting" => loop' = Sleeping
    /\ LoopWriteStep /\ state = "Error" /\ ~WriteFailed =>
          /\ state' = call.target
          /\ state' \in {"On", "Off"}
          /\ level' = Level(state')
          /\ ret' = Nil

\* C15: a hardware write that fails inside the On/Off call of Manage sets the
\* state to Error and returns a non-nil error; Manage does not return but
\* goes on to the sleep of its next tick; a later event whose write is made
\* without failing takes the state from Error to On or Off.
C15_FailAndRecover == [](mainPc = "ready") /\ [][C15_Step]_vars

\* C15 witness: the write for one event failed, the write for a later event
\* succeeded, and Manage sleeps before its next tick.
C15_Witness ==
    /\ Len(hist) = 2
    /\ hist[1].err # Nil
    /\ hist[2].from = "Error"
    /\ hist[2].wrote
    /\ hist[2].err = Nil
    /\ state \in {"On", "Off"}
    /\ mainPc = "ready"
    /\ loop.pc = "sleep"

\* Manage is not in its loop any more only with the channel closed
C16_OpenKeepsRunning == mainPc # "ready" => closed

\* Manage leaves its loop in a receive that found the channel closed and
\* drained
C16_Exit ==
    mainPc' = "exited" /\ mainPc # "exited" =>
        /\ loop.pc = "drain"
        /\ closed
        /\ response = <<>>
        /\ loop'.pc = "done"

\* C16: Manage returns only when a receive on the event channel reports the
\* channel closed; with the channel open no actuator error, empty tick or
\* event makes it return.
C16_ExitOnlyOnClose == []C16_OpenKeepsRunning /\ [][C16_Exit]_vars

\* C16 witness: Manage has returned on the closed channel, after an actuator
\* call that failed and did not end the loop.
C16_Witness ==
    /\ mainPc = "exited"
    /\ loop.pc = "done"
    /\ closed
    /\ state = "Error"

\* the advertise cycle has stopped for good once the channel is closed, and
\* the channel is closed by the advertise goroutine leaving its cycle
C17_CloseOnce ==
    /\ closed => closed' /\ adv' = adv /\ adv.pc = "exit"
    /\ closed' /\ ~closed => adv.pc \in {"configure", "start", "wait"} /\ adv'.pc = "exit"

\* C17: a failure of Configure, Start or Stop ends the advertise cycle and
\* closes the event channel once, and Manage eventually receives the closure
\* and returns.
C17_ClosureEndsManage ==
    /\ [][C17_CloseOnce]_vars
    /\ closed ~> mainPc = "exited"

\* the handler called for a device outside the allow-list, with room in the
\* channel, makes no event, returns at once and leaves a goroutine at its
\* sleep; that goroutine calls device.Disconnect no earlier than the grace
\* delay after it was started
C18_Step ==
    /\ \A device \in Devices, connected \in BOOLEAN :
          Callback(device, connected) /\ ~AllowListed(device) /\ ~Full =>
              /\ NoEnqueue
              /\ radio' = Idle
              /\ requested' = requested
              /\ disconnectors' = disconnectors (+) SetToBag({Grace(device)})
    /\ \A g \in BagToSet(disconnectors) :
          Disconnect(g) /\ g.pc = "grace" =>
              /\ g.age >= DisconnectionDelay
              /\ g.device \in requested'

\* C18: a connect callback for a device outside the allow-list, with the
\* queue not full, enqueues no event and returns; a disconnect of the device
\* is requested by a goroutine of its own, no earlier than the grace delay
\* after the callback, and eventually.
C18_UnknownActor ==
    /\ [][C18_Step]_vars
    /\ \A device \in Devices :
          BagIn(Grace(device), disconnectors) ~> device \in requested

\* C18 witness: the disconnect of the device outside the allow-list has been
\* requested, no event exists, and the next goroutine is at its sleep.
C18_Witness ==
    /\ <<"1", "B">> \in requested
    /\ created = 0
    /\ BagIn(Grace(<<"1", "B">>), disconnectors)
    /\ radio = Idle

\* the two strings are the same up to the case of their letters
SameString(s, t) ==
    /\ Len(s) = Len(t)
    /\ \A k \in 1..Len(s) : SameLetter(s[k], t[k])

\* C19: Actor.Known returns true exactly when the identifier equals an entry
\* of the allow-list up to letter case, over the whole string, hence false
\* for the empty allow-list, and leaves the allow-list as it was.
C19_KnownExact ==
    lookup.pc = "done" =>
        /\ lookup.result <=>
              \E i \in 1..Len(lookup.list) : SameString(lookup.id, lookup.list[i])
        /\ lookup.list = <<>> => ~lookup.result
        /\ lookup.after = lookup.list

\* C19 witness: true was returned for an identifier that differs in case from
\* the second entry, the first entry being a proper prefix of it.
C19_Witness ==
    /\ lookup.pc = "done"
    /\ lookup.result
    /\ lookup.id = <<"A", "b">>
    /\ lookup.list = << <<"a">>, <<"a", "B">> >>

\* the step makes no call of the actuator and completes none
NoActuatorCall ==
    /\ call = NoCall
    /\ call' = NoCall
    /\ hist' = hist
    /\ state' = state
    /\ level' = level

\* the step calls On, Off or Toggle with the settle delay of Operate
Began(op) ==
    /\ call = NoCall
    /\ \/ /\ call' # NoCall
          /\ call'.op = op
          /\ call'.timer = SettleDelay
          /\ hist' = hist
       \/ /\ call' = NoCall
          /\ hist' # hist
          /\ hist'[Len(hist')].op = op
          /\ hist'[Len(hist')].out = "none"
          /\ ~hist'[Len(hist')].dropped

C20_Step ==
    /\ beaves.pc \in {"idle", "returned"} /\ completed < beaves.delay =>
          /\ NoActuatorCall
          /\ beaves'.pc \in {"idle", "returned"}
          /\ beaves.pc = "idle" /\ beaves'.pc = "returned" => beaves'.ret = Nil
    /\ beaves.pc = "idle" /\ beaves'.pc # "idle" /\ completed >= beaves.delay =>
          /\ beaves'.pc = "On"
          /\ Began("On")
    /\ beaves.pc = "On" /\ beaves'.pc # "On" =>
          /\ call = NoCall
          /\ hist # <<>>
          /\ hist[Len(hist)].op = "On"
          /\ hist[Len(hist)].err = ret
          /\ IF ret = Nil
             THEN beaves'.pc = "Off" /\ Began("Off")
             ELSE beaves'.pc = "returned" /\ beaves'.ret = ret /\ NoActuatorCall
    /\ beaves.pc = "Off" /\ beaves'.pc # "Off" =>
          /\ Len(hist) = 2
          /\ hist[1].op = "On" /\ hist[1].err = Nil
          /\ hist[2].op = "Off" /\ hist[2].err = ret
          /\ beaves'.pc = "returned"
          /\ beaves'.ret = ret
          /\ NoActuatorCall
          /\ completed' = 0 <=> ret = Nil
          /\ beaves.delay > 0 => (beaves'.last = 0 <=> ret = Nil)
    /\ beaves.pc = "returned" => NoActuatorCall
    /\ beaves.pc \in {"On", "Off"} /\ beaves'.pc = beaves.pc /\ hist' # hist =>
          hist'[Len(hist')].op = beaves.pc

\* C20: Operate called less than Delay after the last Operate that completed
\* returns nil without calling the actuator; otherwise it calls On and, once
\* On returned nil, Off; the completion time is recorded only when both
\* returned nil, and after an error of On the error is returned and Off is
\* not called.
C20_OperateUnit == [][C20_Step]_vars

\* C20 witness: an Operate called within Delay of a completed On-then-Off
\* has returned nil at the gate.
C20_Witness ==
    /\ beaves.pc = "returned"
    /\ beaves.ret = Nil
    /\ completed > 0
    /\ completed < beaves.delay
    /\ Len(hist) = 2
    /\ hist[1].op = "On" /\ hist[1].err = Nil
    /\ hist[2].op = "Off" /\ hist[2].err = Nil

\* the events of the sequence are in the order of the handler invocations
\* that made them, and their Epochs do not decrease
InCallbackOrder(q) ==
    \A i \in 1..Len(q), j \in 1..Len(q) :
        i < j => q[i].rank < q[j].rank /\ q[i].epoch <= q[j].epoch

\* C21: the events are in the channel, and in the batch a tick drains, in
\* the order in which the callbacks were invoked, with non-decreasing Epoch,
\* so the last event of a batch is that of the most recent callback.
C21_ChannelInCallbackOrder ==
    /\ InCallbackOrder(response)
    /\ InCallbackOrder(proc)

\* the step begins, or completes, an operation of the actuator, writes the
\* line or assigns the actuator's state
TouchesActuator ==
    \/ state' # state
    \/ level' # level
    \/ ret' # ret
    \/ (call = NoCall) # (call' = NoCall)
    \/ gpio'.pin # gpio.pin
    \/ gpio'.last < gpio.last

\* only Manage, between its drain and its next sleep, touches the actuator,
\* and such a step touches nothing of the radar
C22_Step ==
    /\ TouchesActuator =>
          /\ loop.pc \in {"drain", "acting"}
          /\ loop'.pc = "acting"
          /\ UNCHANGED radarVars
    /\ call = NoCall /\ call' # NoCall =>
          /\ loop.pc = "drain"
          /\ response = <<>>
    /\ loop.pc = "acting" /\ loop'.pc # "acting" => call = NoCall /\ loop'.pc = "sleep"

\* an operation is in progress only inside Manage's call of On/Off
C22_OneAtATime == call # NoCall => loop.pc = "acting" /\ call.op \in {"On", "Off"}

\* C22: hardware writes are serialized: only the event loop calls the
\* actuator, at most one operation with its settle delay is in progress, it
\* completes before the next tick drains, and no callback or advertise step
\* writes the line or touches the actuator's state.
C22_Serialized == [][C22_Step]_vars /\ []C22_OneAtATime

\* C22 witness: a callback was accepted and its event sent while On waits
\* its settle delay.
C22_Witness ==
    /\ loop.pc = "acting"
    /\ call # NoCall
    /\ call.op = "On"
    /\ call.timer > 0
    /\ response # <<>>
    /\ \A i \in 1..Len(proc) : proc[i].rank < response[1].rank

\* the goroutines that called InfoMemoize with the key k
CallersOf(k) == {t \in 1..MaxCallers : ToLower(callers[t].msg) = k}

\* the lines written for the key k
LinesOf(k) == {i \in 1..Len(printed) : ToLower(printed[i].msg) = k}

\* once every call has returned, each key that was logged has one line,
\* with the count 0, and its counter holds the number of the other calls
C23_Outcome ==
    (\A t \in 1..MaxCallers : callers[t].pc = "done") =>
        \A k \in Keys :
            CallersOf(k) # {} =>
                /\ logEnabled => Cardinality(LinesOf(k)) = 1
                /\ \A i \in LinesOf(k) : printed[i].count = 0
                /\ memoizeLogs[k].count = Cardinality(CallersOf(k)) - 1
                /\ memoizeLogs[k].exp = MemoWindow

\* at most one goroutine is between Lock and Unlock, and it holds the lock
C23_Exclusive ==
    \A t \in 1..MaxCallers :
        callers[t].pc \in {"read", "write", "info", "unlock"} => memoizeLock = t

\* C23: k concurrent calls of InfoMemoize with the same key in a fresh
\* window print exactly one line and leave the counter at k - 1 under every
\* interleaving, the entry being read and written under the one mutex.
C23_Atomic == C23_Outcome /\ C23_Exclusive

\* C23 witness: concurrent calls with the same key (two spellings) have all
\* returned: one line, and the other calls counted.
C23_Witness ==
    /\ logEnabled
    /\ \A t \in 1..MaxCallers : callers[t].pc = "done"
    /\ callers[1].msg = "A"
    /\ \A t \in 2..MaxCallers : callers[t].msg = "a"
    /\ Len(printed) = 1
    /\ printed[1].msg = "a"
    /\ memoizeLogs["a"].count = MaxCallers - 1

Ranks(S) == {e.rank : e \in S}

\* no event is in two places or twice in one, and each was made by one of
\* the handler invocations counted so far
C24_Distinct ==
    /\ Cardinality(Ranks(AllEvents)) = Cardinality(senders) + Len(response) + Len(proc)
    /\ Ranks(AllEvents) \subseteq 1..created

\* an accepted callback of an allow-listed device makes one event; an event
\* enters the channel from the sender that held it and leaves it into
\* Manage's batch, and no event made earlier is ever handed to a sender again
C24_Step ==
    /\ \A device \in Devices, connected \in BOOLEAN :
          Callback(device, connected) /\ AllowListed(device) /\ ~Full =>
              /\ created' = created + 1
              /\ senders' = senders \cup
                    {[actor |-> device,
                      action |-> IF connected THEN "Entering" ELSE "Exiting",
                      rank |-> created + 1, epoch |-> 0]}
              /\ response' = response
              /\ radio' = Idle
    /\ Ranks(senders') \ Ranks(senders) \subseteq {created + 1}
    /\ response' # response =>
          \/ \E e \in senders :
                /\ response' = Append(response, e)
                /\ senders' = senders \ {e}
                /\ proc' = proc
          \/ /\ response # <<>>
             /\ response' = Tail(response)
             /\ proc' = Append(proc, Head(response))
             /\ senders' = senders
    /\ proc' # proc =>
          \/ proc' = <<>>
          \/ /\ response # <<>>
             /\ proc' = Append(proc, Head(response))
             /\ response' = Tail(response)

\* C24: a callback of an allow-listed actor that passes the flood guard
\* makes exactly one event, and every event placed on the channel is
\* received by the event loop exactly once: it is never duplicated, and it is
\* received eventually unless the process stops.
C24_OnceEach ==
    /\ []C24_Distinct
    /\ [][C24_Step]_vars
    /\ \A r \in 1..MaxCallbacks :
          (r \in Ranks(Range(response))) ~> (r \in Ranks(Range(proc)) \/ ~Running)

\* C24 witness: Manage has received an event in this drain, another is in
\* the channel and a third is held by its sender.
C24_Witness ==
    /\ loop.pc = "drain"
    /\ Len(proc) = 1
    /\ Len(response) = 1
    /\ Cardinality(senders) = 1
    /\ Running

\* C25: the accepted events not yet received by the event loop, those in the
\* channel and those held by sender goroutines that have not sent, are never
\* more than connectionPoolSize.
C25_NoQueuingBeyondCapacity ==
    Cardinality(senders) + Len(response) <= ConnectionPoolSize

\* the constructor returns without error exactly when it leaves a claimed
\* pin, and then with the state read from the line
C26_Step ==
    mainPc = "new" /\ mainPc' # "new" =>
        /\ level' = level
        /\ IF newErr' = Nil
           THEN /\ mainPc' = "ready"
                /\ state' = IF level = "High" THEN "On" ELSE "Off"
           ELSE /\ mainPc' = "failed"
                /\ state' = "Unknown"

\* until the first operation has returned the state is the seed; Unknown
\* is the state only before construction and in the relay returned with an
\* error; Error is the state only after an operation
C26_State ==
    /\ mainPc = "ready" =>
          /\ newErr = Nil
          /\ state # "Unknown"
          /\ hist = <<>> => state = IF level = "High" THEN "On" ELSE "Off"
    /\ state = "Unknown" => mainPc = "new" \/ newErr # Nil
    /\ state = "Error" => hist # <<>>

\* C26: after NewOptoRelaySwitch has returned without error the state is
\* the one read from the pin, On for High and Off for Low, hence neither
\* Unknown nor Error before the first operation; Unknown is the state only
\* of the relay returned together with an error.
C26_Seeded == []C26_State /\ [][C26_Step]_vars

\* C26 witness: the relay was built on the backup terminal with the line
\* High, no operation has been called, and the state is On.
C26_Witness ==
    /\ mainPc = "ready"
    /\ gpio.pin = RelayBackupTerminal
    /\ level = "High"
    /\ state = "On"
    /\ hist = <<>>
    /\ call = NoCall

\* the last call that returned, as the history has it
LastCall == hist'[Len(hist')]

\* a call of On or Off returns at once exactly when the relay is in the
\* state asked for, and then with nil and nothing done; otherwise it goes
\* to its sleep with nothing done yet
C27_Entry ==
    /\ call = NoCall /\ call' = NoCall /\ hist' # hist /\ LastCall.op \in {"On", "Off"} =>
          /\ state = LastCall.op
          /\ LastCall.err = Nil
          /\ ret' = Nil
          /\ ~LastCall.wrote
          /\ UNCHANGED <<state, level, gpio, obs>>
    /\ call = NoCall /\ call' # NoCall =>
          /\ call'.op \in {"On", "Off"} => state # call'.op
          /\ call'.slept = 0
          /\ UNCHANGED <<state, level, gpio, obs, hist, ret>>

\* the line is written, the time of the write taken and the state assigned
\* only in the step that ends a call, after the settle delay was slept in
\* full; the state is assigned in the step of the write
C27_Write ==
    /\ mainPc # "new" /\ (level' # level \/ state' # state \/ gpio'.last < gpio.last) =>
          /\ call # NoCall
          /\ call' = NoCall
          /\ call.slept = call.d
          /\ hist' # hist
          /\ LastCall.op = call.op
          /\ level' # level => LastCall.wrote /\ state' = call.target
    /\ call # NoCall /\ call' # NoCall => UNCHANGED <<state, level, hist, ret>>

\* C27: On called in the state On, and Off in the state Off, returns nil at
\* once with no write, no wait and the state, the line and the time of the
\* last write left as they were; in any other state the write is issued only
\* after the settle delay has passed and the state is assigned only after
\* the write has returned.
C27_NoOpOrSettle == [][C27_Entry /\ C27_Write]_vars

\* C27 witness: Off was called in the state Off and returned at once, after
\* an Off that has slept and written.
C27_Witness ==
    /\ Len(hist) = 2
    /\ hist[1] = Summary("Off", "On", TRUE, FALSE, "ok", Nil)
    /\ hist[2] = Summary("Off", "Off", FALSE, FALSE, "none", Nil)
    /\ state = "Off"
    /\ level = "Low"
    /\ call = NoCall

Min(a, b) == IF a < b THEN a ELSE b

\* gpio.last is the time of the last pin.Out that succeeded, the zero time
\* if there was none: as an age, that of the last success up to the window
C28_FromLastSuccess ==
    mainPc = "ready" => gpio.last = Min(obs.okAge, gpio.debounce)

\* the step that ends a call takes the time of the write exactly when
\* pin.Out was invoked and returned nil, and otherwise leaves gpio as it
\* was; no other step sets gpio.last back
C28_Step ==
    /\ call # NoCall /\ call' = NoCall /\ mainPc' = "ready" =>
          /\ LastCall.op = call.op
          /\ IF LastCall.out = "ok"
             THEN gpio' = [gpio EXCEPT !.last = 0]
             ELSE gpio' = gpio
          /\ LastCall.dropped => gpio.last < gpio.debounce /\ obs' = obs
    /\ mainPc = "ready" /\ gpio'.last < gpio.last => call # NoCall /\ call' = NoCall

\* C28: GPIO.last changes only when a hardware write succeeds; a write
\* dropped by the debounce gate and a write that fails leave it unchanged,
\* so the window is always measured from the previous successful write and
\* a dropped request never extends it.
C28_LastOnSuccess == []C28_FromLastSuccess /\ [][C28_Step]_vars

\* C28 witness: a request was dropped inside the window of a successful
\* write and the window still runs from that write.
C28_Witness ==
    /\ Len(hist) = 2
    /\ hist[1].out = "ok"
    /\ hist[2].dropped
    /\ call = NoCall
    /\ gpio.last = obs.okAge
    /\ gpio.last > 1
    /\ gpio.last < gpio.debounce

Opposite(s) == IF s = "On" THEN "Off" ELSE "On"

\* a Toggle that reaches gpio.Send was called in a valid state and asks
\* for the opposite state; it is dropped inside the debounce window like
\* any write; when pin.Out succeeds the state and the line are the
\* opposite ones and nil is returned; when pin.Out fails the state is Error,
\* the line is untouched and an error is returned
C29_Step ==
    SendStep /\ call.op = "Toggle" =>
        /\ Valid(state)
        /\ call.target = Opposite(state)
        /\ LastCall.op = "Toggle"
        /\ LastCall.from = state
        /\ LastCall.dropped <=> obs.okAge < gpio.debounce
        /\ LastCall.out = "ok" =>
              state' = Opposite(state) /\ level' = Level(state') /\ ret' = Nil
        /\ LastCall.out = "failed" =>
              /\ state' = "Error"
              /\ level' = level
              /\ ret' # Nil
              /\ Is(ret', PinOutErr)

\* two Toggle calls in succession whose writes succeeded
ToggledTwice ==
    /\ Len(hist) = 2
    /\ hist[1].op = "Toggle" /\ hist[1].out = "ok"
    /\ hist[2].op = "Toggle" /\ hist[2].out = "ok"

C29_BackAgain ==
    ToggledTwice =>
        /\ hist[2].from = Opposite(hist[1].from)
        /\ state = hist[1].from
        /\ level = Level(hist[1].from)

\* C29: Toggle in a valid state asks for the opposite state through the
\* write path of On and Off; when the writes succeed two Toggle calls in
\* succession bring the relay back to the state it was in, and a write
\* that fails sets the state to Error and returns an error.
C29_Toggle == []C29_BackAgain /\ [][C29_Step]_vars

\* C29 witness: two Toggle calls in succession have written, from On to Off
\* and back to On.
C29_Witness ==
    /\ ToggledTwice
    /\ hist[1].from = "On"
    /\ state = "On"
    /\ level = "High"
    /\ gpio.debounce > 0

\* the advertise goroutine goes from Configure to Start, from Start to its
\* sleep of the whole advertisement window, from there to Stop and back to
\* Configure, and nowhere else while nothing fails
C30_Step ==
    /\ adv.pc = "configure" /\ adv'.pc # "configure" =>
          adv'.pc = "start" /\ ~adv.started /\ ~adv'.started
    /\ adv.pc = "start" /\ adv'.pc # "start" =>
          /\ adv'.pc = "wait"
          /\ adv'.timer = AdvertisementDelay
          /\ adv'.started
    /\ adv.pc = "wait" /\ adv'.pc = "wait" =>
          /\ adv'.started
          /\ adv'.timer = adv.timer \/ adv'.timer = adv.timer - 1
    /\ adv.pc = "wait" /\ adv'.pc # "wait" =>
          /\ adv.timer = 0
          /\ adv'.pc = "configure"
          /\ ~adv'.started

\* Configure and Start are called on an advertisement that is not started,
\* and with nothing failing the goroutine never ends and the channel is
\* never closed
C30_State ==
    /\ adv.pc \in {"configure", "start", "wait"}
    /\ adv.pc \in {"configure", "start"} => ~adv.started
    /\ ~closed

\* C30: the advertise cycle repeats Configure, Start, the wait for the
\* advertisement window and Stop in that order; Configure is never called
\* on a started advertisement and Start only after the Configure of the same
\* iteration succeeded; as long as no step fails the cycle never ends and
\* the event channel is never closed.
C30_AdvertiseCycle ==
    /\ []C30_State
    /\ [][C30_Step]_vars
    /\ []<>(adv.pc = "configure")
    /\ []<>(adv.pc = "wait" /\ adv.timer = 0)

\* C30 witness: the Configure of a later iteration has succeeded: signals
\* were delivered in an earlier advertisement window, which Stop has ended,
\* and the goroutine is about to call Start again on the open channel.
C30_Witness ==
    /\ adv.pc = "start"
    /\ ~adv.started
    /\ ~listening
    /\ callbacks > 0
    /\ ~closed

\* the two spellings of one text and the key they share
SameText == {"A", "a"}

\* the entry of key k after an occurrence that found the entry m: inside
\* the window one more is counted, at or after the expiry instant a window
\* is opened with the counter at 0
C31_Occurrence(m) ==
    IF m.exp > 0
    THEN [exp |-> m.exp, count |-> m.count + 1]
    ELSE [exp |-> MemoWindow, count |-> 0]

\* an occurrence of either spelling acts on the one entry "a" and leaves the
\* entry of "b" alone; an occurrence of "b" acts on the entry "b" and leaves
\* the entry of "a" alone
C31_Step ==
    /\ \A msg \in SameText :
          InfoMemoize(msg) =>
              /\ memoizeLogs'["a"] = C31_Occurrence(memoizeLogs["a"])
              /\ memoizeLogs'["b"] = memoizeLogs["b"]
    /\ InfoMemoize("b") =>
          /\ memoizeLogs'["b"] = C31_Occurrence(memoizeLogs["b"])
          /\ memoizeLogs'["a"] = memoizeLogs["a"]

\* C31: the suppression key is the lower-cased formatted text: messages that
\* differ only in letter case share one window and one counter, messages
\* with different lower-cased text never change each other's expiry or
\* counter, and an occurrence at or after the expiry instant opens a fresh
\* window.
C31_LowerCasedKey ==
    /\ [](DOMAIN memoizeLogs = {"a", "b"})
    /\ [][C31_Step]_vars

\* C31 witness: "A" opened a window, "b" opened its own, an occurrence of
\* either spelling was suppressed in the window of "A", and at the expiry "a"
\* wrote the line with that one occurrence counted, while a second "b" is
\* counted in the entry of "b".
C31_Witness ==
    /\ logEnabled
    /\ Len(printed) = 3
    /\ printed[1] = [msg |-> "A", count |-> 0]
    /\ printed[2] = [msg |-> "b", count |-> 0]
    /\ printed[3] = [msg |-> "a", count |-> 1]
    /\ memoizeLogs["a"] = [exp |-> MemoWindow, count |-> 0]
    /\ memoizeLogs["b"].count = 1

\* the events a step has handed to new sender goroutines
NewEvents == senders' \ senders

\* the handler invoked with (device, connected) by this step made, of an
\* allow-listed device, one event whose Action is Entering exactly when
\* connected is true and Exiting exactly when it is false
C32_Made(device, connected) ==
    /\ \A e \in NewEvents :
          /\ e.actor = device
          /\ AllowListed(device)
          /\ e.action = "Entering" <=> connected
          /\ e.action = "Exiting" <=> ~connected
    /\ AllowListed(device) /\ Len(response) < ConnectionPoolSize =>
          Cardinality(NewEvents) = 1

\* the actuator call Manage makes in this step is On for an Entering event
\* and Off for an Exiting one
C32_Mapped ==
    tickOps' # tickOps /\ tickOps' # <<>> =>
        LET e == proc[Len(proc)]
            op == tickOps'[Len(tickOps')]
        IN  /\ Len(tickOps') = 1
            /\ e.action = "Entering" => op = "On"
            /\ e.action = "Exiting" => op = "Off"
            /\ call' # NoCall => call'.op = op

C32_Step ==
    /\ \A device \in Devices, connected \in BOOLEAN :
          Callback(device, connected) => C32_Made(device, connected)
    /\ RadioDisconnect => C32_Made(radio.device, FALSE)
    /\ C32_Mapped

\* C32: for an allow-listed actor the Event's Action is Entering exactly
\* when the callback's connected flag is true and Exiting exactly when it is
\* false, and the event loop maps Entering to an On call and Exiting to an
\* Off call, never the reverse.
C32_ActionMapping ==
    /\ [](\A e \in AllEvents : e.action \in {"Entering", "Exiting"})
    /\ [][C32_Step]_vars

\* C32 witness: a connect and a disconnect of allow-listed devices were
\* drained in one batch as an Entering and an Exiting event, and Manage is in
\* the Off call it made for the Exiting one.
C32_Witness ==
    /\ loop.pc = "acting"
    /\ Len(proc) = 2
    /\ proc[1].action = "Entering"
    /\ proc[2].action = "Exiting"
    /\ tickOps = <<"Off">>
    /\ call # NoCall
    /\ call.op = "Off"

\* C33 (as claimed): the relay's logical state never diverges from the
\* hardware: whenever OptoRelay.state is On or Off the pin is at the level of
\* that state, High for On and Low for Off, also when a request falls inside
\* the debounce window.
C33_StateMatchesPin == state \in {"On", "Off"} => level = Level(state)

\* a sender goroutine performs its send in this step although the advertise
\* goroutine has closed the channel
SendOnClosed == closed /\ \E e \in senders : Send2Channel(e)

\* C34 (as claimed): no send on a closed stream: once the advertise goroutine
\* has closed the event channel no sender goroutine spawned by the connect
\* handler performs a send on it, whether it was spawned or blocked before the
\* close or spawned after it.
C34_NoSendOnClosed == [][~SendOnClosed]_vars

\* this step is a call of device.Disconnect, which invokes the connect
\* handler with connected = false and requests the disconnect
Disconnecting ==
    \/ RadioDisconnect
    \/ \E g \in BagToSet(disconnectors) : Disconnect(g)

\* C35 (as claimed): rejection terminates: the connect callbacks of unknown
\* devices, or of any device while the queue is full, lead to finitely many
\* disconnect requests and handler invocations, Device.Disconnect invoking
\* the handler with connected = false: from some point on no step is a call
\* of Device.Disconnect.
C35_RejectionTerminates == <>[][~Disconnecting]_vars

\* Manage goes on to its next iteration or returns in this step
LoopsOrReturns == loop.pc \in {"drain", "acting"} /\ loop'.pc \in {"sleep", "done"}

\* when Manage loops or returns with a batch received in this tick, it has
\* invoked the actuator in this tick, for the last event of the batch
C36_Step ==
    LoopsOrReturns /\ proc # <<>> =>
        /\ Len(tickOps) = 1
        /\ tickOps[1] = "On" <=> proc[Len(proc)].action = "Entering"
        /\ tickOps[1] = "Off" <=> proc[Len(proc)].action = "Exiting"

\* C36 (as claimed): no drained batch is dropped: in every tick in which the
\* event loop has received at least one event, the actuator is invoked for
\* the last of them before Manage loops or returns, including the tick in
\* which the loop also observes that the channel has been closed.
C36_NoBatchDropped == [][C36_Step]_vars

\* Operate returns nil in this step after it passed its gate
PressReturned ==
    /\ beaves.pc = "Off"
    /\ beaves'.pc = "returned"
    /\ beaves'.ret = Nil

\* C37 (as claimed): a momentary press releases the relay: whenever Operate
\* passes its gate and returns nil, the pin is Low and the actuator state is
\* Off at the return, for every relay debounce window and the settle delays
\* of the press: the Off write of the press is never dropped by the debounce
\* window its own On write opened.
C37_PressReleases == [][PressReturned => level' = "Low" /\ state' = "Off"]_vars

====
